---- MODULE Spec2Model ----
(***************************************************************************)
(* Credential vault and domain provisioning engine of the vahan platform.  *)
(*                                                                         *)
(* Each request handler (storeCredentials, getCredentials, addDomain, ...) *)
(* is an async function: it runs atomically between two awaits and may be  *)
(* interleaved with the other handlers at every await (a database round    *)
(* trip or a provider call).  One action of the model is one such segment. *)
(* The database is PostgreSQL at READ COMMITTED: a statement sees what is   *)
(* committed when it runs, the writes of an open transaction are private   *)
(* until COMMIT, and a statement that needs a row (or a unique key) held   *)
(* by an open transaction waits for that transaction to end.               *)
(*                                                                         *)
(* Rows are the values the source's TypeScript types declare for them      *)
(* (StoredCredentials, Domain); how the pg driver names columns and        *)
(* encodes BYTEA and JSON values is outside the model.  External services  *)
(* (STS, SES) answer nondeterministically.                                 *)
(***************************************************************************)
EXTENDS Integers, Sequences, FiniteSets, TLC

\* ---------------------------------------------------------------- bounds
MaxCalls  == 2      \* handler invocations in one behaviour, after those of its start
MaxFaults == 1      \* injected database / environment faults in one behaviour
MaxStringLen == 2   \* code units of a string handed to encrypt by a client

Procs == {1, 2}     \* requests in flight at the same time
Users == {1, 2}     \* principals

\* ------------------------------------------------------------ null values
NoToken   == "<none>"                 \* sessionToken: undefined
NullIv    == 0                        \* SQL NULL in an *_iv column
NullBlob  == [null |-> TRUE]          \* SQL NULL in a ciphertext / tag column
NoTime    == 0                        \* SQL NULL in a timestamp column
NoRow     == [null |-> TRUE]
NoCreds   == [null |-> TRUE]
NoError   == <<>>

\* The credential sets a caller may submit.  An empty-string session token
\* is a value a JSON body can carry; the code tests the token for truthiness.
CredInputs ==
  { [accessKeyId |-> "AKIA1", secretAccessKey |-> "secret1",
     sessionToken |-> NoToken, region |-> "us-east-1"],
    [accessKeyId |-> "AKIA2", secretAccessKey |-> "secret2",
     sessionToken |-> "token2", region |-> "eu-west-1"],
    [accessKeyId |-> "AKIA1", secretAccessKey |-> "secret3",
     sessionToken |-> "", region |-> "eu-west-1"] }

\* ------------------------------------------------------------- variables
VARIABLES
  pc,        \* pc[p]: where request p is suspended ("idle": no call running)
  loc,       \* loc[p]: the locals of the running call
  result,    \* result[p]: what the last finished call of p returned or raised
  creds,     \* committed rows of user_aws_credentials
  audit,     \* committed rows of credential_audit_logs, in insertion order
  domains,   \* committed rows of domains
  dns,       \* committed rows of dns_records
  tx,        \* tx[p]: the uncommitted writes of p's open transaction
  ses,       \* the provider's side: identities that exist, as <<user, domain>>
  envKey,    \* process.env.ENCRYPTION_KEY
  calls,     \* handler invocations so far
  epoch,     \* handler invocations before the behaviour starts
  faults,    \* faults injected so far
  lastWrite, \* history: per principal, the credentials of the last committed
             \* storeCredentials / updateCredentials write (NoCreds: none, or deleted)
  users,     \* committed rows of users
  user_sessions,        \* committed rows of user_sessions
  verification_tokens,  \* committed rows of verification_tokens
  pool,      \* the Database object: its pool field and what became of the pool
  clients    \* the pool's clients: checked out, and released, so far

vars == << pc, loc, result, creds, audit, domains, dns, tx, ses, envKey,
           calls, epoch, faults, lastWrite, users, user_sessions, verification_tokens, pool, clients >>

\* ------------------------------------------------------- EncryptionService
\* AES-256-GCM as an ideal authenticated cipher: the ciphertext is a function
\* of key, IV and plaintext (of the plaintext alone when it is empty: the
\* ciphertext has the plaintext's length), the tag binds key, IV and
\* ciphertext, and decrypt returns the plaintext iff the tag verifies.
\* The plaintext `data` is the bytes cipher.update(data, "utf8", ...) reads:
\* the handlers' values are ASCII and stand for their own bytes; Utf8Bytes
\* gives the bytes of a string of arbitrary code units. The hex encoding of
\* ciphertext, IV and tag is one-to-one on what encrypt produces and is left
\* out.
TagLength == 16
EncData(key, iv, data) ==
  IF data = "" THEN [pt |-> "", key |-> "", iv |-> NullIv]
               ELSE [pt |-> data, key |-> key, iv |-> iv]

\* cipher.getAuthTag(): the full tag of TagLength bytes; `len` is how many of
\* its leading bytes a tag value holds.
TagOf(key, iv, ct) == [key |-> key, iv |-> iv, ct |-> ct, len |-> TagLength]

encrypt(key, iv, data) ==
  LET ct == EncData(key, iv, data)
  IN  [encryptedData |-> ct, iv |-> iv, tag |-> TagOf(key, iv, ct)]

\* decrypt: decipher.final throws unless the tag verifies. createDecipheriv is
\* called without authTagLength, so setAuthTag takes a tag of any length GCM
\* allows (4, 8, 12 to 16 bytes), and final verifies that many leading bytes.
decrypt(key, input) ==
  IF /\ input.tag.len \in {4, 8, 12, 13, 14, 15, 16}
     /\ [input.tag EXCEPT !.len = TagLength]
          = TagOf(key, input.iv, input.encryptedData)
    THEN [ok |-> TRUE,  data |-> input.encryptedData.pt]
    ELSE [ok |-> FALSE, data |-> ""]

\* A bug the "utf8" output decoding could have: the bytes are read one per
\* character.
RECURSIVE Utf8StringBytewise(_)
Utf8StringBytewise(b) ==
  IF b = <<>> THEN <<>>
  ELSE << (IF Head(b) = "61" THEN "0061" ELSE "00" \o Head(b)) >>
         \o Utf8StringBytewise(Tail(b))

\* Strings are sequences of UTF-16 code units, written in hex: "0061" (a),
\* "00e9" (e acute), "fffd" (the replacement character), "d83d" and "de00" (a
\* high and a low surrogate; together U+1F600).
\* The "utf8" input encoding of cipher.update: one byte for "0061", two for
\* "00e9", three for "fffd", four for a surrogate pair, and the three bytes
\* of the replacement character for a surrogate without its partner.
RECURSIVE Utf8Bytes(_)
Utf8Bytes(s) ==
  IF s = <<>> THEN <<>>
  ELSE IF Head(s) = "d83d" /\ Len(s) >= 2 /\ s[2] = "de00"
    THEN <<"f0", "9f", "98", "80">> \o Utf8Bytes(Tail(Tail(s)))
  ELSE IF Head(s) \in {"d83d", "de00", "fffd"}
    THEN <<"ef", "bf", "bd">> \o Utf8Bytes(Tail(s))
  ELSE IF Head(s) = "00e9"
    THEN <<"c3", "a9">> \o Utf8Bytes(Tail(s))
  ELSE <<"61">> \o Utf8Bytes(Tail(s))

\* The "utf8" output decoding of decipher.update / final, on bytes that
\* Utf8Bytes produced.
RECURSIVE Utf8String(_)
Utf8String(b) ==
  IF b = <<>> THEN <<>>
  ELSE IF Head(b) = "f0" THEN <<"d83d", "de00">> \o Utf8String(SubSeq(b, 5, Len(b)))
  ELSE IF Head(b) = "ef" THEN <<"fffd">> \o Utf8String(SubSeq(b, 4, Len(b)))
  ELSE IF Head(b) = "c3" THEN <<"00e9">> \o Utf8String(SubSeq(b, 3, Len(b)))
  ELSE <<"0061">> \o Utf8String(Tail(b))

\* JavaScript truthiness of a column value (NULL and "" are falsy).
TruthyBlob(b) == b # NullBlob /\ b.pt # ""
TruthyTag(t)  == t # NullBlob
TruthyIv(i)   == i # NullIv
TruthyToken(t) == t # NoToken /\ t # ""

\* ------------------------------------------- AWSCredentialsService: values
\* What the two external probes of validateCredentials can answer.
StsResponses == {"identity", "incomplete", "throws"}
SesResponses == {"ok", "throws"}

\* validateCredentials: never throws; the sending-service probe runs only
\* after the identity call returned account, user id and ARN.
validateCredentials(sts, sesProbe) ==
  IF sts = "throws"
    THEN [valid |-> FALSE, probed |-> FALSE,
          error |-> <<"AWS credential validation failed", "sts error">>]
  ELSE IF sts = "incomplete"
    THEN [valid |-> FALSE, probed |-> FALSE,
          error |-> <<"Invalid AWS credentials - unable to retrieve caller identity">>]
  ELSE IF sesProbe = "throws"
    THEN [valid |-> FALSE, probed |-> TRUE,
          error |-> <<"SES access denied - please ensure your AWS credentials have SES permissions", "ses error">>]
  ELSE [valid |-> TRUE, probed |-> TRUE, error |-> NoError]

\* A bug validateCredentials could have: the Arn of the caller identity is
\* not looked at.
GetCallerIdentityNoArn(identity) ==
  IF identity.threw THEN "throws"
  ELSE IF ~identity.Account \/ ~identity.UserId THEN "incomplete"
  ELSE "identity"

\* stsClient.send(new GetCallerIdentityCommand({})) and the test on its result:
\* the call throws, or a field of Account, UserId and Arn is missing, or the
\* identity is complete.
GetCallerIdentity(identity) ==
  IF identity.threw THEN "throws"
  ELSE IF ~identity.Account \/ ~identity.UserId \/ ~identity.Arn THEN "incomplete"
  ELSE "identity"

\* The inner try: GetAccountSendingEnabledCommand, then ListIdentitiesCommand;
\* the second is sent only when the first returned.
SesProbes(enabled, listed) ==
  IF enabled = "throws" \/ listed = "throws" THEN "throws" ELSE "ok"

\* A bug the handlers could have: the validation result is not looked at.
ValidationGateOpen(v) == TRUE

\* A bug the handlers could have: the gate tests that the validation reached
\* the sending-service probe, not its outcome.
ValidationGateProbed(v) == v.valid \/ v.probed

\* `if (!validationResult.valid) throw` of storeCredentials / updateCredentials.
ValidationGate(v) == v.valid

\* The three encrypt calls of storeCredentials / updateCredentials; the
\* session token is encrypted only when it is truthy.  n: IVs drawn before.
EncryptFields(key, n, c) ==
  [ access  |-> encrypt(key, n + 1, c.accessKeyId),
    secret  |-> encrypt(key, n + 2, c.secretAccessKey),
    session |-> IF TruthyToken(c.sessionToken)
                  THEN encrypt(key, n + 3, c.sessionToken)
                  ELSE [encryptedData |-> NullBlob, iv |-> NullIv, tag |-> NullBlob],
    drawn   |-> IF TruthyToken(c.sessionToken) THEN 3 ELSE 2 ]

\* The row of INSERT INTO user_aws_credentials ... RETURNING *.
InsertedCredRow(id, u, c, enc, valid, now) ==
  [ id |-> id, user_id |-> u,
    encrypted_access_key    |-> enc.access.encryptedData,
    encrypted_secret_key    |-> enc.secret.encryptedData,
    encrypted_session_token |-> enc.session.encryptedData,
    region                  |-> c.region,
    access_key_iv           |-> enc.access.iv,
    secret_key_iv           |-> enc.secret.iv,
    session_token_iv        |-> enc.session.iv,
    access_key_tag          |-> enc.access.tag,
    secret_key_tag          |-> enc.secret.tag,
    session_token_tag       |-> enc.session.tag,
    credentials_valid       |-> valid,
    last_validated          |-> now ]

\* A bug the UPDATE could have: the SET list misses access_key_iv.
UpdatedCredRowStaleIv(old, c, enc, valid, now) ==
  [ InsertedCredRow(old.id, old.user_id, c, enc, valid, now)
      EXCEPT !.access_key_iv = old.access_key_iv ]

\* A bug the UPDATE could have: the SET list misses region.
UpdatedCredRowStaleRegion(old, c, enc, valid, now) ==
  [ InsertedCredRow(old.id, old.user_id, c, enc, valid, now)
      EXCEPT !.region = old.region ]

\* The row after UPDATE user_aws_credentials SET ... WHERE user_id = $1: every
\* encrypted column, region, credentials_valid and last_validated replaced.
UpdatedCredRow(old, c, enc, valid, now) ==
  InsertedCredRow(old.id, old.user_id, c, enc, valid, now)

\* A bug the UPDATE of revalidateCredentials could have: its SET list also
\* writes a column of the encrypted set.
RevalidatedCredRowTouchesIv(old, valid, now) ==
  [ old EXCEPT !.credentials_valid = valid, !.last_validated = now,
               !.access_key_iv = old.secret_key_iv ]

\* The row after UPDATE user_aws_credentials SET credentials_valid = $2,
\* last_validated = NOW() WHERE user_id = $1.
RevalidatedCredRow(old, valid, now) ==
  [ old EXCEPT !.credentials_valid = valid, !.last_validated = now ]

\* DecryptRow as it would be if only the access key's tag were verified.
DecryptRowAccessKeyOnly(key, stored) ==
  LET a == decrypt(key, [encryptedData |-> stored.encrypted_access_key,
                         iv |-> stored.access_key_iv, tag |-> stored.access_key_tag])
  IN  [ ok |-> a.ok,
        value |-> [accessKeyId |-> a.data,
                   secretAccessKey |-> stored.encrypted_secret_key.pt,
                   sessionToken |-> NoToken, region |-> stored.region] ]

\* The decryption part of getCredentials on the row it read.
DecryptRow(key, stored) ==
  LET a == decrypt(key, [encryptedData |-> stored.encrypted_access_key,
                         iv |-> stored.access_key_iv, tag |-> stored.access_key_tag])
      s == decrypt(key, [encryptedData |-> stored.encrypted_secret_key,
                         iv |-> stored.secret_key_iv, tag |-> stored.secret_key_tag])
      hasT == /\ TruthyBlob(stored.encrypted_session_token)
              /\ TruthyIv(stored.session_token_iv)
              /\ TruthyTag(stored.session_token_tag)
      t == IF hasT
             THEN decrypt(key, [encryptedData |-> stored.encrypted_session_token,
                                iv |-> stored.session_token_iv,
                                tag |-> stored.session_token_tag])
             ELSE [ok |-> TRUE, data |-> NoToken]
  IN  [ ok |-> a.ok /\ s.ok /\ t.ok,
        value |-> [accessKeyId |-> a.data, secretAccessKey |-> s.data,
                   sessionToken |-> t.data, region |-> stored.region] ]

\* One row of credential_audit_logs (ip address and user agent are passed
\* through unchanged and left out).
AuditEntry(u, action, details, success) ==
  [user_id |-> u, action |-> action, details |-> details, success |-> success]

\* A bug the audit write could have: an upsert keyed on (user, action).
AuditUpsert(log, e) ==
  IF \E i \in 1..Len(log) : log[i].user_id = e.user_id /\ log[i].action = e.action
    THEN [i \in 1..Len(log) |->
            IF log[i].user_id = e.user_id /\ log[i].action = e.action
              THEN e ELSE log[i]]
    ELSE Append(log, e)

\* INSERT INTO credential_audit_logs: the log after the write.
AuditInsert(log, e) == Append(log, e)

\* Detail objects of the audit entries.
DetailValidation(region, v) == [kind |-> "validation", region |-> region,
                                valid |-> v.valid, error |-> v.error]
DetailRegion(region)        == [kind |-> "region", region |-> region,
                                valid |-> TRUE, error |-> NoError]
\* A bug the catch blocks could have: the detail of a failure quotes the
\* access key the call was working with.
DetailErrorQuotesKey(msg)   == [kind |-> "error", region |-> "",
                                valid |-> FALSE,
                                error |-> Append(msg, (CHOOSE c \in CredInputs :
                                                         c.sessionToken = NoToken).accessKeyId)]

DetailError(msg)            == [kind |-> "error", region |-> "",
                                valid |-> FALSE, error |-> msg]
DetailEmpty                 == [kind |-> "empty", region |-> "",
                                valid |-> TRUE, error |-> NoError]

\* Error messages of the database driver.
DbError      == <<"database error">>
UniqueError  == <<"duplicate key value violates unique constraint">>

\* ------------------------------------------------------ Database (pg pool)
Tx0 == [ open |-> FALSE, delCreds |-> {}, insCreds |-> {}, insAudit |-> <<>>,
         insDomains |-> {}, insDns |-> {} ]

\* A bug transaction() could have: the catch branch ends the transaction
\* with what it wrote so far instead of discarding it.
RolledBackKeepsWrites(t) ==
  [ creds   |-> {r \in creds : r.id \notin t.delCreds} \cup t.insCreds,
    audit   |-> audit \o t.insAudit,
    domains |-> domains \cup t.insDomains,
    dns     |-> dns \cup t.insDns ]

\* Database.transaction, COMMIT: the tables once transaction t is committed.
Committed(t) ==
  [ creds   |-> {r \in creds : r.id \notin t.delCreds} \cup t.insCreds,
    audit   |-> audit \o t.insAudit,
    domains |-> domains \cup t.insDomains,
    dns     |-> dns \cup t.insDns ]

\* A bug transaction() could have: ROLLBACK leaves the inserted domain row.
RolledBackKeepsDomain(t) ==
  [ creds |-> creds, audit |-> audit,
    domains |-> domains \cup t.insDomains, dns |-> dns ]

\* A bug transaction() could have: ROLLBACK undoes the inserts but not the
\* deletes.
RolledBackKeepsDeletes(t) ==
  [ creds   |-> {r \in creds : r.id \notin t.delCreds},
    audit   |-> audit, domains |-> domains, dns |-> dns ]

\* Database.transaction, ROLLBACK: the tables once transaction t is undone.
RolledBack(t) ==
  [ creds |-> creds, audit |-> audit, domains |-> domains, dns |-> dns ]

\* Rows of user_aws_credentials that a statement of p finds locked: deleted
\* by another request's open transaction.
LockedCredIds(p) == UNION { tx[q].delCreds : q \in Procs \ {p} }

CredIdsOf(u) == { r.id : r \in { x \in creds : x.user_id = u } }

\* A bug the database could have: an INSERT does not wait for the open
\* transaction that holds the same key.
CredKeyNeverPending(p, u) == FALSE

\* UNIQUE (user_id) on user_aws_credentials.  An INSERT waits while another
\* open transaction holds the key (inserted it, or deleted the row that has
\* it), and fails when a committed row that p did not delete has it.
CredKeyPending(p, u) ==
  \E q \in Procs \ {p} :
     \/ \E r \in tx[q].insCreds : r.user_id = u
     \/ \E r \in creds : r.user_id = u /\ r.id \in tx[q].delCreds

\* A bug the schema could have: no unique key on user_id.
CredKeyNeverTaken(p, u) == FALSE

CredKeyTaken(p, u) ==
  \E r \in creds : r.user_id = u /\ r.id \notin tx[p].delCreds

\* logCredentialAction: one INSERT in its own try/catch; a failure of the
\* write is logged to the console and swallowed.
logCredentialAction(log, e, writeFails) ==
  IF writeFails THEN log ELSE AuditInsert(log, e)

\* ----------------------------------------------------------- call frames
NoValidation == [valid |-> FALSE, probed |-> FALSE, error |-> NoError]
NoEnc == [null |-> TRUE]

Frame0 ==
  [ op |-> "none", caller |-> "none", user |-> 0, call |-> 0,
    input |-> NoCreds, val |-> NoValidation, enc |-> NoEnc,
    stored |-> NoRow, got |-> NoCreds, targets |-> {}, deleted |-> FALSE,
    err |-> NoError,
    domainName |-> <<>>, domainId |-> 0, domain |-> NoRow, sesOk |-> FALSE,
    token |-> "", dkimTokens |-> <<>>, records |-> <<>>, idx |-> 0,
    \* history of the call, read by the properties only
    auditFailed |-> FALSE, dbFailed |-> FALSE, primaryOk |-> FALSE,
    expect |-> NoCreds,
    \* the commands SESService sent to the provider, and whether the lookup
    \* of the call ran while a matching domain row was committed
    sent |-> <<>>, known |-> FALSE,
    \* the VerificationStatus the provider answered to the call, if it was asked
    answer |-> "none",
    \* what a call that touches no stored state was given: its arguments and
    \* the provider's answers
    inputs |-> <<>> ]

Result0 ==
  [ op |-> "none", user |-> 0, call |-> 0, kind |-> "none",
    value |-> NoCreds, error |-> NoError,
    \* history of the call, read by the properties only
    val |-> NoValidation, auditFailed |-> FALSE, dbFailed |-> FALSE, primaryOk |-> FALSE,
    expect |-> NoCreds, sent |-> <<>>, known |-> FALSE,
    domainName |-> <<>>, domainId |-> 0, sesOk |-> FALSE, caught |-> NoError,
    answer |-> "none", inputs |-> <<>> ]

\* The call of p ends and leaves the record r of what it returned or raised.
Return(p, r) ==
  /\ pc' = [pc EXCEPT ![p] = "idle"]
  /\ loc' = [loc EXCEPT ![p] = Frame0]
  /\ result' = [result EXCEPT ![p] = r]

\* The call of p goes on at `label` with frame f.
Continue(p, label, f) ==
  /\ pc' = [pc EXCEPT ![p] = label]
  /\ loc' = [loc EXCEPT ![p] = f]
  /\ result' = [result EXCEPT ![p] = IF pc[p] = "idle" THEN Result0 ELSE @]

\* A call of the credential or domain service ends: it returns `value` or
\* raises `error`.  These services do not touch the tables of the
\* authentication service, and reach the database through a connected pool.
FinishWith(p, f, kind, value, error, af) ==
  /\ Return(p,
       [ op |-> f.op, user |-> f.user, call |-> f.call, kind |-> kind,
         value |-> value, error |-> error, val |-> f.val,
         auditFailed |-> f.auditFailed \/ af, dbFailed |-> f.dbFailed,
         primaryOk |-> f.primaryOk, expect |-> f.expect,
         sent |-> f.sent, known |-> f.known,
         domainName |-> f.domainName, domainId |-> f.domainId, sesOk |-> f.sesOk,
         caught |-> f.err, answer |-> f.answer, inputs |-> f.inputs ])
  /\ UNCHANGED << users, user_sessions, verification_tokens, pool, clients >>

Finish(p, kind, value, error, af) == FinishWith(p, loc[p], kind, value, error, af)

Goto(p, label, f) ==
  /\ Continue(p, label, f)
  /\ UNCHANGED << users, user_sessions, verification_tokens, pool, clients >>

\* A handler is invoked: the call takes the first idle request slot.
Invoke(p, budget) ==
  /\ pc[p] = "idle"
  /\ \A q \in Procs : q < p => pc[q] # "idle"
  /\ calls - epoch < budget
  /\ calls' = calls + 1
  /\ epoch' = epoch

\* crypto.randomBytes(16) never returns the same IV twice: the IVs of the
\* call numbered n are the three after those of all earlier calls.
IvsPerCall == 3
IvsBefore(n) == IvsPerCall * (n - 1)

\* SERIAL ids: unique and increasing; a row gets the number of the call that
\* inserts it.
NextId(p) == loc[p].call

\* NOW(): time, which passes with every invocation.
Now == calls

NewFrame(op, u) ==
  [Frame0 EXCEPT !.op = op, !.caller = op, !.user = u, !.call = calls + 1]

\* A database statement fails (connection lost, server error).
Fault == faults < MaxFaults /\ faults' = faults + 1
NoFault == faults' = faults

\* The audit write of logCredentialAction, succeeding or failing.
Log(e, writeFails) ==
  /\ audit' = logCredentialAction(audit, e, writeFails)
  /\ IF writeFails THEN Fault ELSE NoFault

UnchangedDomainSide == UNCHANGED << domains, dns, ses >>

\* --------------------------------------- AWSCredentialsService.storeCredentials
\* The call up to its first database round trip: validate, then encrypt.
storeCredentials_call(p) ==
  \E u \in Users, c \in CredInputs, sts \in StsResponses, sesProbe \in SesResponses :
    LET v   == validateCredentials(sts, sesProbe)
        enc == EncryptFields(envKey, IvsBefore(calls + 1), c)
        f   == [NewFrame("store", u) EXCEPT !.input = c, !.val = v]
    IN  /\ Invoke(p, MaxCalls)
        /\ IF ~ValidationGate(v)
             THEN FinishWith(p, f, "raised", NoCreds,
                             <<"Invalid credentials">> \o v.error, FALSE)
             ELSE Goto(p, "store_begin", [f EXCEPT !.enc = enc])
        /\ UNCHANGED << creds, audit, tx, envKey, faults, lastWrite >>
        /\ UnchangedDomainSide

\* A statement of the transaction failed: on to ROLLBACK.
StoreAbort(p, msg, isAudit) ==
  /\ Fault
  /\ Goto(p, "store_rollback",
          [loc[p] EXCEPT !.err = msg,
                         !.auditFailed = @ \/ isAudit,
                         !.dbFailed = @ \/ ~isAudit])

\* BEGIN
storeCredentials_begin(p) ==
  /\ pc[p] = "store_begin"
  /\ \/ /\ NoFault
        /\ tx' = [tx EXCEPT ![p] = [Tx0 EXCEPT !.open = TRUE]]
        /\ Goto(p, "store_delete", loc[p])
     \/ /\ StoreAbort(p, DbError, FALSE)
        /\ tx' = tx
  /\ UNCHANGED << creds, audit, envKey, calls, epoch, lastWrite >>
  /\ UnchangedDomainSide

\* DELETE FROM user_aws_credentials WHERE user_id = $1, in the transaction.
\* The statement picks its rows when it starts; if one of them is locked it
\* waits, and when the lock is gone it deletes those that still exist.
storeCredentials_delete(p) ==
  /\ pc[p] \in {"store_delete", "store_delete_wait"}
  /\ LET targets == IF pc[p] = "store_delete_wait" THEN loc[p].targets
                    ELSE CredIdsOf(loc[p].user)
     IN  \/ /\ targets \cap LockedCredIds(p) # {}
            /\ pc[p] = "store_delete"
            /\ NoFault
            /\ Goto(p, "store_delete_wait", [loc[p] EXCEPT !.targets = targets])
            /\ tx' = tx
         \/ /\ targets \cap LockedCredIds(p) = {}
            /\ NoFault
            /\ tx' = [tx EXCEPT ![p].delCreds = {r.id : r \in {x \in creds : x.id \in targets}}]
            /\ Goto(p, "store_insert", [loc[p] EXCEPT !.targets = {}])
         \/ /\ StoreAbort(p, DbError, FALSE)
            /\ tx' = tx
  /\ UNCHANGED << creds, audit, envKey, calls, epoch, lastWrite >>
  /\ UnchangedDomainSide

\* INSERT INTO user_aws_credentials ... RETURNING *, in the transaction.
storeCredentials_insert(p) ==
  /\ pc[p] = "store_insert"
  /\ LET u   == loc[p].user
         row == InsertedCredRow(NextId(p), u, loc[p].input, loc[p].enc,
                                loc[p].val.valid, Now)
     IN  \/ /\ ~CredKeyPending(p, u)
            /\ ~CredKeyTaken(p, u)
            /\ NoFault
            /\ tx' = [tx EXCEPT ![p].insCreds = @ \cup {row}]
            /\ Goto(p, "store_audit", [loc[p] EXCEPT !.stored = row, !.primaryOk = TRUE])
         \/ /\ ~CredKeyPending(p, u)
            /\ CredKeyTaken(p, u)
            /\ NoFault
            /\ Goto(p, "store_rollback", [loc[p] EXCEPT !.err = UniqueError])
            /\ tx' = tx
         \/ /\ StoreAbort(p, DbError, FALSE)
            /\ tx' = tx
  /\ UNCHANGED << creds, audit, envKey, calls, epoch, lastWrite >>
  /\ UnchangedDomainSide

\* INSERT INTO credential_audit_logs, on the transaction's client.
storeCredentials_audit(p) ==
  /\ pc[p] = "store_audit"
  /\ LET e == AuditEntry(loc[p].user, "create",
                         DetailValidation(loc[p].input.region, loc[p].val), TRUE)
     IN  \/ /\ NoFault
            /\ tx' = [tx EXCEPT ![p].insAudit = Append(@, e)]
            /\ Goto(p, "store_commit", loc[p])
         \/ /\ StoreAbort(p, DbError, TRUE)
            /\ tx' = tx
  /\ UNCHANGED << creds, audit, envKey, calls, epoch, lastWrite >>
  /\ UnchangedDomainSide

\* COMMIT; the callback's value (the inserted row) is returned.
storeCredentials_commit(p) ==
  /\ pc[p] = "store_commit"
  /\ \/ /\ NoFault
        /\ LET db == Committed(tx[p])
           IN  /\ creds' = db.creds
               /\ audit' = db.audit
        /\ tx' = [tx EXCEPT ![p] = Tx0]
        /\ lastWrite' = [lastWrite EXCEPT ![loc[p].user] = loc[p].input]
        /\ Finish(p, "returned", loc[p].stored, NoError, FALSE)
     \/ /\ StoreAbort(p, DbError, FALSE)
        /\ UNCHANGED << creds, audit, tx, lastWrite >>
  /\ UNCHANGED << envKey, calls, epoch >>
  /\ UnchangedDomainSide

\* ROLLBACK, then the client is released and the error reaches the catch
\* block of storeCredentials.
storeCredentials_rollback(p) ==
  /\ pc[p] = "store_rollback"
  /\ LET db == RolledBack(tx[p])
     IN  /\ creds' = db.creds
         /\ audit' = db.audit
  /\ tx' = [tx EXCEPT ![p] = Tx0]
  /\ Goto(p, "store_fail_audit", loc[p])
  /\ UNCHANGED << envKey, calls, epoch, faults, lastWrite >>
  /\ UnchangedDomainSide

\* catch: logCredentialAction("create", ..., false), then rethrow.
storeCredentials_fail_audit(p) ==
  /\ pc[p] = "store_fail_audit"
  /\ \E writeFails \in BOOLEAN :
       /\ Log(AuditEntry(loc[p].user, "create", DetailError(loc[p].err), FALSE), writeFails)
       /\ Finish(p, "raised", NoCreds,
                 <<"Failed to store credentials">> \o loc[p].err, writeFails)
  /\ UNCHANGED << creds, tx, envKey, calls, epoch, lastWrite >>
  /\ UnchangedDomainSide

\* ----------------------------------------- AWSCredentialsService.getCredentials
\* getCredentials is called by a client and by revalidateCredentials and
\* SESService.createSESClient; loc[p].caller says where its outcome goes.
DecryptError == <<"Unsupported state or unable to authenticate data">>

\* createSESClient: `if (!credentials) throw`, caught by the SESService method.
NoCredentialsError == <<"No AWS credentials found for user">>

\* A bug the catch branch could have: an unreachable provider reads as pending.
StatusUnavailablePending == [verified |-> FALSE, pending |-> TRUE]

\* getDomainVerificationStatus, catch branch: not verified, not pending.
StatusUnavailable == [verified |-> FALSE, pending |-> FALSE]

\* Where the caller goes on when getCredentials, in frame f, returned `value`
\* (NoCreds: null).
GetReturns(p, f0, value, af) ==
  LET f == [f0 EXCEPT !.got = value, !.auditFailed = @ \/ af]
  IN  CASE f.caller = "get" ->
             FinishWith(p, f0, "returned", value, NoError, af)
        [] f.caller = "revalidate" ->
             IF value = NoCreds
               THEN FinishWith(p, f0, "returned",
                               [valid |-> FALSE, probed |-> FALSE,
                                error |-> <<"No credentials found">>], NoError, af)
               ELSE Goto(p, "reval_update", f)
        [] f.caller = "addDomain" ->
             IF value = NoCreds
               THEN FinishWith(p, f0, "returned",
                      [success |-> FALSE,
                       error |-> <<"Failed to create SES domain identity">>
                                   \o NoCredentialsError], NoError, af)
               ELSE Goto(p, "add_verify", f)
        [] f.caller = "checkDomainVerification" ->
             IF value = NoCreds
               THEN Goto(p, "check_update", [f EXCEPT !.sesOk = FALSE])
               ELSE Goto(p, "check_update", [f EXCEPT !.sesOk = TRUE])
        [] f.caller = "deleteDomain" ->
             IF value = NoCreds
               THEN Goto(p, "deldom_delete", f)
               ELSE Goto(p, "deldom_ses", f)
        [] f.caller = "listIdentities" ->
             IF value = NoCreds
               THEN FinishWith(p, [f0 EXCEPT !.err = NoCredentialsError],
                               "returned", <<>>, NoError, af)
               ELSE Goto(p, "list_send", [f EXCEPT !.sesOk = TRUE])

\* Where the caller goes on when getCredentials raised `msg`.
GetRaises(p, msg, af) ==
  LET f == [loc[p] EXCEPT !.err = msg, !.auditFailed = @ \/ af]
  IN  CASE f.caller = "get" ->
             Finish(p, "raised", NoCreds, msg, af)
        [] f.caller = "revalidate" ->
             Goto(p, "reval_fail_audit", f)
        [] f.caller = "addDomain" ->
             Finish(p, "returned",
                    [success |-> FALSE,
                     error |-> <<"Failed to create SES domain identity">> \o msg],
                    NoError, af)
        [] f.caller = "checkDomainVerification" ->
             Goto(p, "check_update", [f EXCEPT !.sesOk = FALSE])
        [] f.caller = "deleteDomain" ->
             Goto(p, "deldom_delete", f)
        [] f.caller = "listIdentities" ->
             FinishWith(p, f, "returned", <<>>, NoError, FALSE)

getCredentials_call(p) ==
  \E u \in Users :
    /\ Invoke(p, MaxCalls)
    /\ Goto(p, "get_select", NewFrame("get", u))
    /\ UNCHANGED << creds, audit, tx, envKey, faults, lastWrite >>
    /\ UnchangedDomainSide

\* SELECT * FROM user_aws_credentials WHERE user_id = $1, then the decryption
\* of the row read (synchronous).
getCredentials_select(p) ==
  /\ pc[p] = "get_select"
  /\ LET rows == {r \in creds : r.user_id = loc[p].user}
     IN  \/ /\ rows = {}
            /\ NoFault
            /\ GetReturns(p, [loc[p] EXCEPT !.expect = lastWrite[loc[p].user],
                                            !.primaryOk = TRUE],
                          NoCreds, FALSE)
         \/ /\ NoFault
            /\ \E stored \in rows :
                 LET d == DecryptRow(envKey, stored)
                     f == [loc[p] EXCEPT !.stored = stored,
                                         !.expect = lastWrite[loc[p].user]]
                 IN  IF d.ok
                       THEN Goto(p, "get_audit", [f EXCEPT !.got = d.value, !.primaryOk = TRUE])
                       ELSE Goto(p, "get_fail_audit", [f EXCEPT !.err = DecryptError])
         \/ /\ Fault
            /\ Goto(p, "get_fail_audit", [loc[p] EXCEPT !.err = DbError, !.dbFailed = TRUE])
  /\ UNCHANGED << creds, audit, tx, envKey, calls, epoch, lastWrite >>
  /\ UnchangedDomainSide

\* A bug getCredentials could have: the access is logged only for a client's
\* own read, not for the retrievals the services make themselves.
getCredentials_auditDirectOnly(p) ==
  /\ pc[p] = "get_audit"
  /\ \E writeFails \in BOOLEAN :
       /\ IF loc[p].caller = "get"
            THEN Log(AuditEntry(loc[p].user, "access", DetailRegion(loc[p].stored.region), TRUE),
                     writeFails)
            ELSE /\ audit' = audit
                 /\ IF writeFails THEN Fault ELSE NoFault
       /\ GetReturns(p, loc[p], loc[p].got, writeFails)
  /\ UNCHANGED << creds, tx, envKey, calls, epoch, lastWrite >>
  /\ UnchangedDomainSide

\* logCredentialAction("access", {region}, true), then return the credentials.
getCredentials_audit(p) ==
  /\ pc[p] = "get_audit"
  /\ \E writeFails \in BOOLEAN :
       /\ Log(AuditEntry(loc[p].user, "access", DetailRegion(loc[p].stored.region), TRUE),
              writeFails)
       /\ GetReturns(p, loc[p], loc[p].got, writeFails)
  /\ UNCHANGED << creds, tx, envKey, calls, epoch, lastWrite >>
  /\ UnchangedDomainSide

\* catch: logCredentialAction("access", {error}, false), then rethrow.
getCredentials_fail_audit(p) ==
  /\ pc[p] = "get_fail_audit"
  /\ \E writeFails \in BOOLEAN :
       /\ Log(AuditEntry(loc[p].user, "access", DetailError(loc[p].err), FALSE), writeFails)
       /\ GetRaises(p, <<"Failed to retrieve credentials">> \o loc[p].err, writeFails)
  /\ UNCHANGED << creds, tx, envKey, calls, epoch, lastWrite >>
  /\ UnchangedDomainSide

\* -------------------------------------- AWSCredentialsService.updateCredentials
updateCredentials_call(p) ==
  \E u \in Users, c \in CredInputs, sts \in StsResponses, sesProbe \in SesResponses :
    LET v   == validateCredentials(sts, sesProbe)
        enc == EncryptFields(envKey, IvsBefore(calls + 1), c)
        f   == [NewFrame("update", u) EXCEPT !.input = c, !.val = v]
    IN  /\ Invoke(p, MaxCalls)
        /\ IF ~ValidationGate(v)
             THEN FinishWith(p, f, "raised", NoCreds,
                             <<"Invalid credentials">> \o v.error, FALSE)
             ELSE Goto(p, "update_stmt", [f EXCEPT !.enc = enc])
        /\ UNCHANGED << creds, audit, tx, envKey, faults, lastWrite >>
        /\ UnchangedDomainSide

\* UPDATE user_aws_credentials SET ... WHERE user_id = $1 RETURNING *
\* (one statement, its own transaction).
updateCredentials_stmt(p) ==
  /\ pc[p] \in {"update_stmt", "update_wait"}
  /\ LET targets == IF pc[p] = "update_wait" THEN loc[p].targets
                    ELSE CredIdsOf(loc[p].user)
         hit     == {r \in creds : r.id \in targets}
         new(r)  == UpdatedCredRow(r, loc[p].input, loc[p].enc, loc[p].val.valid, Now)
     IN  \/ /\ targets \cap LockedCredIds(p) # {}
            /\ pc[p] = "update_stmt"
            /\ NoFault
            /\ Goto(p, "update_wait", [loc[p] EXCEPT !.targets = targets])
            /\ UNCHANGED << creds, lastWrite >>
         \/ /\ targets \cap LockedCredIds(p) = {}
            /\ hit # {}
            /\ NoFault
            /\ creds' = (creds \ hit) \cup {new(r) : r \in hit}
            /\ lastWrite' = [lastWrite EXCEPT ![loc[p].user] = loc[p].input]
            /\ \E r \in hit :
                 Goto(p, "update_audit",
                      [loc[p] EXCEPT !.stored = new(r), !.targets = {}, !.primaryOk = TRUE])
         \/ /\ targets \cap LockedCredIds(p) = {}
            /\ hit = {}
            /\ NoFault
            /\ Goto(p, "update_fail_audit",
                    [loc[p] EXCEPT !.err = <<"No credentials found to update">>, !.targets = {}])
            /\ UNCHANGED << creds, lastWrite >>
         \/ /\ Fault
            /\ Goto(p, "update_fail_audit",
                    [loc[p] EXCEPT !.err = DbError, !.dbFailed = TRUE, !.targets = {}])
            /\ UNCHANGED << creds, lastWrite >>
  /\ UNCHANGED << audit, tx, envKey, calls, epoch >>
  /\ UnchangedDomainSide

\* logCredentialAction("update", ..., true), then return the row.
updateCredentials_audit(p) ==
  /\ pc[p] = "update_audit"
  /\ \E writeFails \in BOOLEAN :
       /\ Log(AuditEntry(loc[p].user, "update",
                         DetailValidation(loc[p].input.region, loc[p].val), TRUE), writeFails)
       /\ Finish(p, "returned", loc[p].stored, NoError, writeFails)
  /\ UNCHANGED << creds, tx, envKey, calls, epoch, lastWrite >>
  /\ UnchangedDomainSide

\* catch: logCredentialAction("update", {error}, false), then rethrow.
updateCredentials_fail_audit(p) ==
  /\ pc[p] = "update_fail_audit"
  /\ \E writeFails \in BOOLEAN :
       /\ Log(AuditEntry(loc[p].user, "update", DetailError(loc[p].err), FALSE), writeFails)
       /\ Finish(p, "raised", NoCreds,
                 <<"Failed to update credentials">> \o loc[p].err, writeFails)
  /\ UNCHANGED << creds, tx, envKey, calls, epoch, lastWrite >>
  /\ UnchangedDomainSide

\* -------------------------------------- AWSCredentialsService.deleteCredentials
deleteCredentials_call(p) ==
  \E u \in Users :
    /\ Invoke(p, MaxCalls)
    /\ Goto(p, "delete_stmt", NewFrame("delete", u))
    /\ UNCHANGED << creds, audit, tx, envKey, faults, lastWrite >>
    /\ UnchangedDomainSide

\* DELETE FROM user_aws_credentials WHERE user_id = $1 (one statement).
deleteCredentials_stmt(p) ==
  /\ pc[p] \in {"delete_stmt", "delete_wait"}
  /\ LET targets == IF pc[p] = "delete_wait" THEN loc[p].targets
                    ELSE CredIdsOf(loc[p].user)
         hit     == {r \in creds : r.id \in targets}
     IN  \/ /\ targets \cap LockedCredIds(p) # {}
            /\ pc[p] = "delete_stmt"
            /\ NoFault
            /\ Goto(p, "delete_wait", [loc[p] EXCEPT !.targets = targets])
            /\ UNCHANGED << creds, lastWrite >>
         \/ /\ targets \cap LockedCredIds(p) = {}
            /\ NoFault
            /\ creds' = creds \ hit
            /\ lastWrite' = IF hit = {} THEN lastWrite
                            ELSE [lastWrite EXCEPT ![loc[p].user] = NoCreds]
            /\ Goto(p, "delete_audit",
                    [loc[p] EXCEPT !.deleted = (hit # {}), !.targets = {}, !.primaryOk = TRUE])
         \/ /\ Fault
            /\ Goto(p, "delete_fail_audit",
                    [loc[p] EXCEPT !.err = DbError, !.dbFailed = TRUE, !.targets = {}])
            /\ UNCHANGED << creds, lastWrite >>
  /\ UNCHANGED << audit, tx, envKey, calls, epoch >>
  /\ UnchangedDomainSide

\* logCredentialAction("delete", {}, deleted), then return deleted.
deleteCredentials_audit(p) ==
  /\ pc[p] = "delete_audit"
  /\ \E writeFails \in BOOLEAN :
       /\ Log(AuditEntry(loc[p].user, "delete", DetailEmpty, loc[p].deleted), writeFails)
       /\ Finish(p, "returned", loc[p].deleted, NoError, writeFails)
  /\ UNCHANGED << creds, tx, envKey, calls, epoch, lastWrite >>
  /\ UnchangedDomainSide

\* catch: logCredentialAction("delete", {error}, false), then rethrow.
deleteCredentials_fail_audit(p) ==
  /\ pc[p] = "delete_fail_audit"
  /\ \E writeFails \in BOOLEAN :
       /\ Log(AuditEntry(loc[p].user, "delete", DetailError(loc[p].err), FALSE), writeFails)
       /\ Finish(p, "raised", NoCreds,
                 <<"Failed to delete credentials">> \o loc[p].err, writeFails)
  /\ UNCHANGED << creds, tx, envKey, calls, epoch, lastWrite >>
  /\ UnchangedDomainSide

\* ------------------------------------------------ EncryptionService, called
\* encrypt(data) called by a client with a string of code units.
encrypt_call(p) ==
  \E s \in UNION { [1..n -> {"0061", "00e9", "fffd", "d83d", "de00"}] : n \in 0..MaxStringLen } :
    LET f == [NewFrame("encrypt", 0) EXCEPT !.inputs = <<s>>]
    IN  /\ Invoke(p, MaxCalls)
        /\ FinishWith(p, f, "returned",
                      encrypt(envKey, IvsBefore(calls + 1) + 1, Utf8Bytes(s)),
                      NoError, FALSE)
        /\ UNCHANGED << creds, audit, tx, envKey, faults, lastWrite >>
        /\ UnchangedDomainSide

\* decrypt(input) called by a client with the result of the encrypt call
\* before it: as it was returned, or with its ciphertext, its IV or its tag
\* replaced, or its tag cut to its first four bytes, or by a process started
\* with another ENCRYPTION_KEY.
decrypt_call(p) ==
  /\ result[p].op = "encrypt"
  /\ \E change \in {"none", "ciphertext", "iv", "tag", "tag cut", "key"} :
       LET e     == result[p].value
           input == CASE change = "ciphertext" ->
                           [e EXCEPT !.encryptedData = EncData(envKey, e.iv, <<"7a">>)]
                     [] change = "iv"      -> [e EXCEPT !.iv = @ + 1]
                     [] change = "tag"     -> [e EXCEPT !.tag.iv = @ + 1]
                     [] change = "tag cut" -> [e EXCEPT !.tag.len = 4]
                     [] OTHER              -> e
           d     == decrypt(IF change = "key" THEN "key0" ELSE envKey, input)
           bytes == IF d.data = "" THEN <<>> ELSE d.data
           f     == [NewFrame("decrypt", 0) EXCEPT
                       !.inputs = <<result[p].inputs[1], change>>,
                       !.err = IF d.ok THEN NoError ELSE DecryptError]
       IN  /\ Invoke(p, MaxCalls)
           /\ IF d.ok
                THEN FinishWith(p, f, "returned", Utf8String(bytes), NoError, FALSE)
                ELSE FinishWith(p, f, "raised", NoCreds, DecryptError, FALSE)
  /\ UNCHANGED << creds, audit, tx, envKey, faults, lastWrite >>
  /\ UnchangedDomainSide

\* ------------------------------------- AWSCredentialsService.validateCredentials
\* validateCredentials called by a client: it reads and writes no stored
\* state; what it returns depends on what the provider answers to its three
\* commands.
validateCredentials_call(p) ==
  \E identity \in [threw : BOOLEAN, Account : BOOLEAN, UserId : BOOLEAN, Arn : BOOLEAN],
     enabled \in SesResponses, listed \in SesResponses :
    LET v    == validateCredentials(GetCallerIdentity(identity), SesProbes(enabled, listed))
        sent == <<"GetCallerIdentity">>
                  \o (IF v.probed THEN <<"GetAccountSendingEnabled">> ELSE <<>>)
                  \o (IF v.probed /\ enabled = "ok" THEN <<"ListIdentities">> ELSE <<>>)
        f    == [NewFrame("validate", 0) EXCEPT !.val = v, !.sent = sent,
                                                !.inputs = <<identity, enabled, listed>>]
    IN  /\ identity.threw => ~(identity.Account \/ identity.UserId \/ identity.Arn)
        /\ Invoke(p, MaxCalls)
        /\ FinishWith(p, f, "returned", v, NoError, FALSE)
        /\ UNCHANGED << creds, audit, tx, envKey, faults, lastWrite >>
        /\ UnchangedDomainSide

\* ---------------------------------- AWSCredentialsService.revalidateCredentials
revalidateCredentials_call(p) ==
  \E u \in Users :
    /\ Invoke(p, MaxCalls)
    /\ Goto(p, "get_select", NewFrame("revalidate", u))
    /\ UNCHANGED << creds, audit, tx, envKey, faults, lastWrite >>
    /\ UnchangedDomainSide

\* validateCredentials(credentials), then
\* UPDATE user_aws_credentials SET credentials_valid = $2, last_validated = NOW().
revalidateCredentials_update(p) ==
  /\ pc[p] \in {"reval_update", "reval_wait"}
  /\ \E sts \in StsResponses, sesProbe \in SesResponses :
      LET v       == IF pc[p] = "reval_wait" THEN loc[p].val
                     ELSE validateCredentials(sts, sesProbe)
          targets == IF pc[p] = "reval_wait" THEN loc[p].targets
                     ELSE CredIdsOf(loc[p].user)
          hit     == {r \in creds : r.id \in targets}
      IN  \/ /\ targets \cap LockedCredIds(p) # {}
             /\ pc[p] = "reval_update"
             /\ NoFault
             /\ Goto(p, "reval_wait", [loc[p] EXCEPT !.targets = targets, !.val = v])
             /\ creds' = creds
          \/ /\ targets \cap LockedCredIds(p) = {}
             /\ NoFault
             /\ creds' = (creds \ hit) \cup
                  { RevalidatedCredRow(r, v.valid, Now) : r \in hit }
             /\ Goto(p, "reval_audit", [loc[p] EXCEPT !.val = v, !.targets = {}, !.primaryOk = TRUE])
          \/ /\ Fault
             /\ Goto(p, "reval_fail_audit",
                     [loc[p] EXCEPT !.err = DbError, !.dbFailed = TRUE, !.targets = {}, !.val = v])
             /\ creds' = creds
  /\ UNCHANGED << audit, tx, envKey, calls, epoch, lastWrite >>
  /\ UnchangedDomainSide

\* logCredentialAction("validate", {validation}, valid), then return the result.
revalidateCredentials_audit(p) ==
  /\ pc[p] = "reval_audit"
  /\ \E writeFails \in BOOLEAN :
       /\ Log(AuditEntry(loc[p].user, "validate",
                         DetailValidation("", loc[p].val), loc[p].val.valid),
              writeFails)
       /\ Finish(p, "returned", loc[p].val, NoError, writeFails)
  /\ UNCHANGED << creds, tx, envKey, calls, epoch, lastWrite >>
  /\ UnchangedDomainSide

\* catch: logCredentialAction("validate", {error}, false); the error is
\* returned as a failed validation, not raised.
revalidateCredentials_fail_audit(p) ==
  /\ pc[p] = "reval_fail_audit"
  /\ \E writeFails \in BOOLEAN :
       /\ Log(AuditEntry(loc[p].user, "validate", DetailError(loc[p].err), FALSE), writeFails)
       /\ Finish(p, "returned",
                 [valid |-> FALSE, probed |-> FALSE, error |-> loc[p].err], NoError, writeFails)
  /\ UNCHANGED << creds, tx, envKey, calls, epoch, lastWrite >>
  /\ UnchangedDomainSide

\* ------------------------------------------------- SESService.listIdentities
\* listIdentities called by a client: createSESClient first.
listIdentities_call(p) ==
  \E u \in Users :
    /\ Invoke(p, MaxCalls)
    /\ Goto(p, "get_select", NewFrame("listIdentities", u))
    /\ UNCHANGED << creds, audit, tx, envKey, faults, lastWrite >>
    /\ UnchangedDomainSide

\* ListIdentities at the provider: the identities of the account in some
\* order, a result without Identities, or a failure; the last two are
\* answered with [].
listIdentities_send(p) ==
  /\ pc[p] = "list_send"
  /\ LET f    == [loc[p] EXCEPT !.sent = Append(@, "ListIdentities")]
         mine == { e[2] : e \in { x \in ses : x[1] = loc[p].user } }
     IN  \/ \E ids \in [1..Cardinality(mine) -> mine] :
              /\ \A i, j \in DOMAIN ids : i # j => ids[i] # ids[j]
              /\ FinishWith(p, [f EXCEPT !.answer = "Identities"], "returned", ids,
                            NoError, FALSE)
         \/ FinishWith(p, [f EXCEPT !.answer = "absent"], "returned", <<>>, NoError, FALSE)
         \/ FinishWith(p, [f EXCEPT !.answer = "throws", !.err = <<"ses error">>],
                       "returned", <<>>, NoError, FALSE)
  /\ UNCHANGED << creds, audit, tx, envKey, faults, lastWrite, calls, epoch >>
  /\ UnchangedDomainSide

\* ------------------------------------------------------ DNSRecordGenerator
\* A name or value of a record is the concatenation of its parts.
NoPriority == 0
MxPriority == 10
DefaultTtl == 300
AddDomainRegion == "us-east-1"

DNSRecord(type, name, value, priority, purpose) ==
  [type |-> type, name |-> name, value |-> value, ttl |-> DefaultTtl,
   priority |-> priority, purpose |-> purpose]

generateVerificationRecord(domain, token) ==
  << DNSRecord("TXT", <<"_amazonses.">> \o domain, <<token>>, NoPriority, "verification") >>

\* A bug generateDKIMRecords could have: every record is built from the first
\* token.
generateDKIMRecordsFirstToken(domain, tokens) ==
  [ i \in 1..Len(tokens) |->
      DNSRecord("CNAME", <<tokens[1], "._domainkey.">> \o domain,
                <<tokens[1], ".dkim.amazonses.com">>, NoPriority, "dkim") ]

generateDKIMRecords(domain, tokens) ==
  [ i \in 1..Len(tokens) |->
      DNSRecord("CNAME", <<tokens[i], "._domainkey.">> \o domain,
                <<tokens[i], ".dkim.amazonses.com">>, NoPriority, "dkim") ]

generateSPFRecord(domain) ==
  DNSRecord("TXT", domain, <<"v=spf1 include:amazonses.com ~all">>, NoPriority, "spf")

generateDMARCRecord(domain) ==
  DNSRecord("TXT", <<"_dmarc.">> \o domain,
            <<"v=DMARC1; p=quarantine; rua=mailto:postmaster@">> \o domain,
            NoPriority, "dmarc")

generateMXRecords(domain, region) ==
  << DNSRecord("MX", domain, <<"inbound-smtp.", region, ".amazonaws.com">>,
               MxPriority, "mx") >>

\* A bug the generator could have: the order of the list depends on how
\* often the generator was used.
generateAllDNSRecordsUnstable(domain, verificationToken, dkimTokens, region) ==
  LET records == generateVerificationRecord(domain, verificationToken)
                   \o generateDKIMRecords(domain, dkimTokens)
                   \o << generateSPFRecord(domain) >>
                   \o << generateDMARCRecord(domain) >>
                   \o generateMXRecords(domain, region)
  IN  IF calls = epoch THEN records
      ELSE [ i \in 1..Len(records) |-> records[Len(records) + 1 - i] ]

generateAllDNSRecords(domain, verificationToken, dkimTokens, region) ==
  generateVerificationRecord(domain, verificationToken)
    \o generateDKIMRecords(domain, dkimTokens)
    \o << generateSPFRecord(domain) >>
    \o << generateDMARCRecord(domain) >>
    \o generateMXRecords(domain, region)

\* ------------------------------------------------- DomainService: values
\* Domain names are sequences of characters.
AlnumChars ==
  { "a","b","c","d","e","f","g","h","i","j","k","l","m","n","o","p","q","r","s",
    "t","u","v","w","x","y","z","0","1","2","3","4","5","6","7","8","9",
    "A","B","C","D","E","F","G","H","I","J","K","L","M","N","O","P","Q","R","S",
    "T","U","V","W","X","Y","Z" }
MaxLabelLen  == 63
MaxDomainLen == 253

\* The labels of a name: its pieces between the dots.
RECURSIVE SplitLabels(_, _)
SplitLabels(d, cur) ==
  IF d = <<>> THEN << cur >>
  ELSE IF Head(d) = "." THEN << cur >> \o SplitLabels(Tail(d), <<>>)
  ELSE SplitLabels(Tail(d), Append(cur, Head(d)))

\* [a-z0-9](?:[a-z0-9-]{0,61}[a-z0-9])?  (case-insensitive)
LabelOk(l) ==
  /\ Len(l) >= 1
  /\ Len(l) <= MaxLabelLen
  /\ l[1] \in AlnumChars
  /\ l[Len(l)] \in AlnumChars
  /\ \A i \in 1..Len(l) : l[i] \in AlnumChars \cup {"-"}

\* isValidDomain: two or more dot-separated labels, at most 253 characters.
isValidDomain(d) ==
  LET labels == SplitLabels(d, <<>>)
  IN  /\ Len(labels) >= 2
      /\ \A i \in 1..Len(labels) : LabelOk(labels[i])
      /\ Len(d) <= MaxDomainLen

\* Names a caller may submit: two well-formed ones and a malformed one.
DomainNames == { <<"a",".","c","o">>, <<"b",".","c","o">>, <<"-","a",".","c","o">> }

\* What the provider can answer to GetIdentityDkimAttributes: the signing
\* tokens of the identity (none, two, three).
DkimTokenLists == { <<>>, <<"dk1", "dk2">>, <<"dk1", "dk2", "dk3">> }
\* VerifyDomainIdentity's token for a domain.
VerificationTokenOf(d) == "tok123"

\* What the provider can answer to GetIdentityVerificationAttributes:
\* a VerificationStatus, no attributes for the identity, or an error.
ProviderStatuses == {"Success", "Pending", "Failed", "absent", "throws"}

\* getDomainVerificationStatus, on the provider's answer.
getDomainVerificationStatus(answer) ==
  IF answer = "throws" THEN StatusUnavailable
  ELSE [verified |-> answer = "Success", pending |-> answer = "Pending"]

\* A bug the mapping could have: whatever is not verified is stored as pending.
NewStatusNeverFailed(status) ==
  IF status.verified THEN "verified" ELSE "pending"

\* checkDomainVerification: the status to store.
NewStatus(status) ==
  IF status.verified THEN "verified"
  ELSE IF status.pending THEN "pending"
  ELSE "failed"

\* A bug the UPDATE could have: verification_attempts left out of its SET list.
CheckedDomainRowNoCount(row, status, now) ==
  [ row EXCEPT
      !.verification_status = NewStatus(status),
      !.last_verification_attempt = now,
      !.verified_at = IF status.verified THEN now ELSE @ ]

\* The row after UPDATE domains SET verification_status = $2,
\* last_verification_attempt = NOW(), verification_attempts = verification_attempts + 1,
\* verified_at = CASE WHEN $3 THEN NOW() ELSE verified_at END.
CheckedDomainRow(row, status, now) ==
  [ row EXCEPT
      !.verification_status = NewStatus(status),
      !.last_verification_attempt = now,
      !.verification_attempts = @ + 1,
      !.verified_at = IF status.verified THEN now ELSE @ ]

\* The row of INSERT INTO domains (user_id, domain_name, verification_token,
\* dkim_tokens, verification_status) ... RETURNING *, with the columns the
\* statement does not name at their schema defaults.
InsertedDomainRow(id, u, name, token, dkimTokens) ==
  [ id |-> id, user_id |-> u, domain_name |-> name,
    verification_token |-> token, dkim_tokens |-> dkimTokens,
    verification_status |-> "pending",
    dns_records_generated |-> FALSE,
    verification_attempts |-> 0,
    last_verification_attempt |-> NoTime,
    verified_at |-> NoTime ]

\* The row of INSERT INTO dns_records (domain_id, record_type, name, value,
\* ttl, priority, record_purpose).
InsertedDnsRow(domainId, n, r) ==
  [ id |-> <<domainId, n>>, domain_id |-> domainId, record_type |-> r.type, name |-> r.name,
    value |-> r.value, ttl |-> r.ttl, priority |-> r.priority,
    record_purpose |-> r.purpose ]

\* The rows query<Domain>() returns, read as the Domain interface declares them.
AsDomain(row) ==
  [ id |-> row.id, userId |-> row.user_id, domainName |-> row.domain_name,
    verificationStatus |-> row.verification_status ]

\* A bug the owner check could have: `!domain` alone.
OwnedByAnyone(found, u) == found # {}

\* `!domain || domain.userId !== userId` of checkDomainVerification / deleteDomain.
OwnedBy(found, u) == found # {} /\ \A d \in found : AsDomain(d).userId = u

\* UNIQUE (user_id, domain_name) on domains: an INSERT waits while another
\* open transaction has inserted the key, and fails when a committed row has it.
DomainKeyPending(p, u, name) ==
  \E q \in Procs \ {p} :
     \E r \in tx[q].insDomains : r.user_id = u /\ r.domain_name = name

\* A bug the schema could have: no unique key on (user_id, domain_name).
DomainKeyNeverTaken(u, name) == FALSE

DomainKeyTaken(u, name) ==
  \E r \in domains : r.user_id = u /\ r.domain_name = name

\* A bug the schema could have: dns_records.domain_id without ON DELETE CASCADE
\* (and without the foreign key that would then refuse the delete).
DnsAfterDeleteNoCascade(gone) == dns

\* ON DELETE CASCADE of dns_records.domain_id: the records that stay when the
\* domain rows with the ids `gone` are deleted.
DnsAfterDelete(gone) == { r \in dns : r.domain_id \notin gone }

\* -------------------------------------------------- DomainService.addDomain
UnchangedCredSide == UNCHANGED << creds, envKey, lastWrite >>

\* generateAllDNSRecords called by a client (addDomain calls it with the
\* provider's tokens and the region "us-east-1").
generateAllDNSRecords_call(p) ==
  \E domain \in DomainNames, dkimTokens \in DkimTokenLists,
     region \in {"us-east-1", "eu-west-1"} :
    LET token == VerificationTokenOf(domain)
        f == [NewFrame("generateAllDNSRecords", 0) EXCEPT
                !.inputs = <<domain, token, dkimTokens, region>>]
    IN  /\ Invoke(p, MaxCalls)
        /\ FinishWith(p, f, "returned",
                      generateAllDNSRecords(domain, token, dkimTokens, region),
                      NoError, FALSE)
        /\ UNCHANGED << creds, audit, tx, envKey, faults, lastWrite >>
        /\ UnchangedDomainSide

\* The call up to its first database round trip: the syntax check.
addDomain_call(p) ==
  \E u \in Users, name \in DomainNames :
    LET f == [NewFrame("addDomain", u) EXCEPT !.domainName = name]
    IN  /\ Invoke(p, MaxCalls)
        /\ IF ~isValidDomain(name)
             THEN FinishWith(p, f, "returned",
                             [success |-> FALSE, error |-> <<"Invalid domain name format">>],
                             NoError, FALSE)
             ELSE Goto(p, "add_find", f)
        /\ UNCHANGED << audit, domains, dns, tx, ses, faults >>
        /\ UnchangedCredSide

\* findDomainByName: SELECT ... WHERE user_id = $1 AND domain_name = $2; a
\* failing query is logged and answered with null.  Then createDomainIdentity
\* starts with createSESClient, which calls getCredentials.
addDomain_find(p) ==
  /\ pc[p] = "add_find"
  /\ LET existing == { r \in domains : r.user_id = loc[p].user
                                       /\ r.domain_name = loc[p].domainName }
     IN  \/ /\ existing # {}
            /\ NoFault
            /\ FinishWith(p, [loc[p] EXCEPT !.known = TRUE], "returned",
                          [success |-> FALSE, error |-> <<"Domain already exists for this user">>],
                          NoError, FALSE)
         \/ /\ existing = {}
            /\ NoFault
            /\ Goto(p, "get_select", loc[p])
         \/ /\ Fault
            /\ Goto(p, "get_select",
                    [loc[p] EXCEPT !.dbFailed = TRUE, !.known = (existing # {})])
  /\ UNCHANGED << audit, domains, dns, tx, ses, calls, epoch >>
  /\ UnchangedCredSide

\* A bug addDomain could have: the failure of createDomainIdentity is handed
\* on as a success.
AddDomainSesFailureIgnored(msg) ==
  [success |-> TRUE, error |-> <<"Failed to create SES domain identity">> \o msg]

\* createDomainIdentity, catch branch; addDomain returns it as it is.
AddDomainSesFailure(msg) ==
  [success |-> FALSE, error |-> <<"Failed to create SES domain identity">> \o msg]

\* VerifyDomainIdentity: the provider creates the identity and returns its
\* token, or returns no token, or fails.
addDomain_verify(p) ==
  /\ pc[p] = "add_verify"
  /\ LET f == [loc[p] EXCEPT !.sent = Append(@, "VerifyDomainIdentity")]
     IN  \/ /\ ses' = ses \cup { <<loc[p].user, loc[p].domainName>> }
            /\ Goto(p, "add_dkim",
                    [f EXCEPT !.token = VerificationTokenOf(loc[p].domainName)])
         \/ /\ ses' = ses
            /\ FinishWith(p, f, "returned",
                          [success |-> FALSE,
                           error |-> <<"Failed to get verification token from SES">>],
                          NoError, FALSE)
         \/ /\ ses' = ses
            /\ FinishWith(p, f, "returned", AddDomainSesFailure(<<"ses error">>),
                          NoError, FALSE)
  /\ UNCHANGED << audit, domains, dns, tx, calls, epoch, faults >>
  /\ UnchangedCredSide

\* GetIdentityDkimAttributes: the signing tokens, or a failure.
addDomain_dkim(p) ==
  /\ pc[p] = "add_dkim"
  /\ LET f == [loc[p] EXCEPT !.sent = Append(@, "GetIdentityDkimAttributes")]
     IN  \/ \E tokens \in DkimTokenLists :
              Goto(p, "add_begin", [f EXCEPT !.dkimTokens = tokens, !.sesOk = TRUE])
         \/ FinishWith(p, f, "returned", AddDomainSesFailure(<<"ses error">>),
                       NoError, FALSE)
  /\ UNCHANGED << audit, domains, dns, tx, ses, calls, epoch, faults >>
  /\ UnchangedCredSide

\* A statement of the transaction failed: on to ROLLBACK.
AddAbort(p, msg) ==
  /\ Fault
  /\ Goto(p, "add_rollback", [loc[p] EXCEPT !.err = msg, !.dbFailed = TRUE])

\* BEGIN
addDomain_begin(p) ==
  /\ pc[p] = "add_begin"
  /\ \/ /\ NoFault
        /\ tx' = [tx EXCEPT ![p] = [Tx0 EXCEPT !.open = TRUE]]
        /\ Goto(p, "add_insert_domain", loc[p])
     \/ /\ AddAbort(p, DbError)
        /\ tx' = tx
  /\ UNCHANGED << audit, domains, dns, ses, calls, epoch >>
  /\ UnchangedCredSide

\* INSERT INTO domains ... RETURNING *; then the records are generated.
addDomain_insert_domain(p) ==
  /\ pc[p] = "add_insert_domain"
  /\ LET u    == loc[p].user
         name == loc[p].domainName
         row  == InsertedDomainRow(NextId(p), u, name, loc[p].token, loc[p].dkimTokens)
         recs == generateAllDNSRecords(name, loc[p].token, loc[p].dkimTokens,
                                       AddDomainRegion)
     IN  \/ /\ ~DomainKeyPending(p, u, name)
            /\ ~DomainKeyTaken(u, name)
            /\ NoFault
            /\ tx' = [tx EXCEPT ![p].insDomains = @ \cup {row}]
            /\ Goto(p, "add_insert_dns",
                    [loc[p] EXCEPT !.domain = row, !.domainId = row.id,
                                   !.records = recs, !.idx = 1])
         \/ /\ ~DomainKeyPending(p, u, name)
            /\ DomainKeyTaken(u, name)
            /\ NoFault
            /\ tx' = tx
            /\ Goto(p, "add_rollback", [loc[p] EXCEPT !.err = UniqueError])
         \/ /\ AddAbort(p, DbError)
            /\ tx' = tx
  /\ UNCHANGED << audit, domains, dns, ses, calls, epoch >>
  /\ UnchangedCredSide

\* for (const record of dnsRecords) INSERT INTO dns_records ...
addDomain_insert_dns(p) ==
  /\ pc[p] = "add_insert_dns"
  /\ LET n   == loc[p].idx
         row == InsertedDnsRow(loc[p].domainId, n, loc[p].records[n])
     IN  \/ /\ NoFault
            /\ tx' = [tx EXCEPT ![p].insDns = @ \cup {row}]
            /\ Goto(p, IF n = Len(loc[p].records) THEN "add_mark" ELSE "add_insert_dns",
                    [loc[p] EXCEPT !.idx = n + 1])
         \/ /\ AddAbort(p, DbError)
            /\ tx' = tx
  /\ UNCHANGED << audit, domains, dns, ses, calls, epoch >>
  /\ UnchangedCredSide

\* UPDATE domains SET dns_records_generated = TRUE WHERE id = $1
addDomain_mark(p) ==
  /\ pc[p] = "add_mark"
  /\ \/ /\ NoFault
        /\ tx' = [tx EXCEPT ![p].insDomains =
                    { IF r.id = loc[p].domainId
                        THEN [r EXCEPT !.dns_records_generated = TRUE] ELSE r : r \in @ }]
        /\ Goto(p, "add_commit", loc[p])
     \/ /\ AddAbort(p, DbError)
        /\ tx' = tx
  /\ UNCHANGED << audit, domains, dns, ses, calls, epoch >>
  /\ UnchangedCredSide

\* COMMIT; addDomain returns the row the INSERT returned.
addDomain_commit(p) ==
  /\ pc[p] = "add_commit"
  /\ \/ /\ NoFault
        /\ LET db == Committed(tx[p])
           IN  /\ domains' = db.domains
               /\ dns' = db.dns
        /\ tx' = [tx EXCEPT ![p] = Tx0]
        /\ Finish(p, "returned", [success |-> TRUE, domain |-> loc[p].domain],
                  NoError, FALSE)
     \/ /\ AddAbort(p, DbError)
        /\ UNCHANGED << domains, dns, tx >>
  /\ UNCHANGED << audit, ses, calls, epoch >>
  /\ UnchangedCredSide

\* ROLLBACK; the error reaches the catch block of addDomain, which returns it.
addDomain_rollback(p) ==
  /\ pc[p] = "add_rollback"
  /\ LET db == RolledBack(tx[p])
     IN  /\ domains' = db.domains
         /\ dns' = db.dns
  /\ tx' = [tx EXCEPT ![p] = Tx0]
  /\ Finish(p, "returned",
            [success |-> FALSE, error |-> <<"Failed to add domain">> \o loc[p].err],
            NoError, FALSE)
  /\ UNCHANGED << audit, ses, calls, epoch, faults >>
  /\ UnchangedCredSide

\* ------------------------------------ DomainService.checkDomainVerification
\* Domain ids a caller may name: those handed out so far and one that is not.
KnownIds == { r.id : r \in domains } \cup {0}

DomainNotFound == [success |-> FALSE, error |-> <<"Domain not found">>]

checkDomainVerification_call(p) ==
  \E u \in Users, id \in KnownIds :
    /\ Invoke(p, MaxCalls)
    /\ Goto(p, "check_find", [NewFrame("checkDomainVerification", u) EXCEPT !.domainId = id])
    /\ UNCHANGED << audit, domains, dns, tx, ses, faults >>
    /\ UnchangedCredSide

\* findDomainById (a failing query is answered with null) and the owner check.
checkDomainVerification_find(p) ==
  /\ pc[p] = "check_find"
  /\ LET found == { r \in domains : r.id = loc[p].domainId }
     IN  \/ /\ ~OwnedBy(found, loc[p].user)
            /\ NoFault
            /\ Finish(p, "returned", DomainNotFound, NoError, FALSE)
         \/ /\ OwnedBy(found, loc[p].user)
            /\ NoFault
            /\ \E d \in found :
                 Goto(p, "get_select",
                      [loc[p] EXCEPT !.domain = d, !.domainName = AsDomain(d).domainName,
                                     !.known = TRUE])
         \/ /\ Fault
            /\ FinishWith(p, [loc[p] EXCEPT !.dbFailed = TRUE,
                                            !.known = OwnedBy(found, loc[p].user)],
                          "returned", DomainNotFound, NoError, FALSE)
  /\ UNCHANGED << audit, domains, dns, tx, ses, calls, epoch >>
  /\ UnchangedCredSide

\* getDomainVerificationStatus (the provider's answer, or the failure of
\* createSESClient), then UPDATE domains SET ... WHERE id = $1.
checkDomainVerification_update(p) ==
  /\ pc[p] = "check_update"
  /\ \E answer \in ProviderStatuses :
       LET status == IF loc[p].sesOk THEN getDomainVerificationStatus(answer)
                     ELSE StatusUnavailable
           hit    == { r \in domains : r.id = loc[p].domainId }
           f      == IF loc[p].sesOk
                       THEN [loc[p] EXCEPT
                               !.sent = Append(@, "GetIdentityVerificationAttributes"),
                               !.answer = answer]
                       ELSE loc[p]
       IN  \/ /\ NoFault
              /\ domains' = (domains \ hit) \cup { CheckedDomainRow(r, status, Now) : r \in hit }
              /\ FinishWith(p, [f EXCEPT !.primaryOk = TRUE], "returned",
                            [success |-> TRUE, verified |-> status.verified],
                            NoError, FALSE)
           \/ /\ Fault
              /\ domains' = domains
              /\ FinishWith(p, [f EXCEPT !.dbFailed = TRUE], "returned",
                            [success |-> FALSE,
                             error |-> <<"Failed to check verification">> \o DbError],
                            NoError, FALSE)
  /\ UNCHANGED << audit, dns, tx, ses, calls, epoch >>
  /\ UnchangedCredSide

\* ----------------------------------------------- DomainService.deleteDomain
deleteDomain_call(p) ==
  \E u \in Users, id \in KnownIds :
    /\ Invoke(p, MaxCalls)
    /\ Goto(p, "deldom_find", [NewFrame("deleteDomain", u) EXCEPT !.domainId = id])
    /\ UNCHANGED << audit, domains, dns, tx, ses, faults >>
    /\ UnchangedCredSide

deleteDomain_find(p) ==
  /\ pc[p] = "deldom_find"
  /\ LET found == { r \in domains : r.id = loc[p].domainId }
     IN  \/ /\ ~OwnedBy(found, loc[p].user)
            /\ NoFault
            /\ Finish(p, "returned", DomainNotFound, NoError, FALSE)
         \/ /\ OwnedBy(found, loc[p].user)
            /\ NoFault
            /\ \E d \in found :
                 Goto(p, "get_select",
                      [loc[p] EXCEPT !.domain = d, !.domainName = AsDomain(d).domainName,
                                     !.known = TRUE])
         \/ /\ Fault
            /\ FinishWith(p, [loc[p] EXCEPT !.dbFailed = TRUE,
                                            !.known = OwnedBy(found, loc[p].user)],
                          "returned", DomainNotFound, NoError, FALSE)
  /\ UNCHANGED << audit, domains, dns, tx, ses, calls, epoch >>
  /\ UnchangedCredSide

\* deleteDomainIdentity: DeleteIdentity at the provider; a failure is logged
\* and answered with false, which deleteDomain does not look at.
deleteDomain_ses(p) ==
  /\ pc[p] = "deldom_ses"
  /\ \/ ses' = ses \ { <<loc[p].user, loc[p].domainName>> }
     \/ ses' = ses
  /\ Goto(p, "deldom_delete", [loc[p] EXCEPT !.sent = Append(@, "DeleteIdentity")])
  /\ UNCHANGED << audit, domains, dns, tx, calls, epoch, faults >>
  /\ UnchangedCredSide

\* DELETE FROM domains WHERE id = $1 (cascades to dns_records).
deleteDomain_delete(p) ==
  /\ pc[p] = "deldom_delete"
  /\ \/ /\ NoFault
        /\ domains' = { r \in domains : r.id # loc[p].domainId }
        /\ dns' = DnsAfterDelete({loc[p].domainId})
        /\ FinishWith(p, [loc[p] EXCEPT !.primaryOk = TRUE], "returned",
                      [success |-> TRUE, error |-> NoError], NoError, FALSE)
     \/ /\ Fault
        /\ UNCHANGED << domains, dns >>
        /\ FinishWith(p, [loc[p] EXCEPT !.dbFailed = TRUE], "returned",
                      [success |-> FALSE, error |-> <<"Failed to delete domain">> \o DbError],
                      NoError, FALSE)
  /\ UNCHANGED << audit, tx, ses, calls, epoch >>
  /\ UnchangedCredSide

\* ------------------------------------------------ Database (utils/database)
\* The Database object of the process.  `set`: this.pool is not null; `id`:
\* the connect call that built the pool (0: none, or before the behaviour);
\* `test`: history, what became of the connectivity test made on that pool.
PoolNull      == [set |-> FALSE, id |-> 0, test |-> "none"]
PoolConnected == [set |-> TRUE,  id |-> 0, test |-> "passed"]

\* The frame, and in the end the record, of a call on the Database object or
\* on the authentication service.  History read by the properties only:
\* `sent` (the statements the call issued on its client), `acquired` and
\* `releases` (the client it checked out, and how often it released it),
\* `callback` (how the callback of transaction() ended), `poolTest` (the test
\* state of the pool the call used), `failed` (the statement that failed),
\* `created` (the id of the users row the call inserted), `stale` (see
\* validateSession).
CallFrame(op) ==
  [ op |-> op, caller |-> op, call |-> calls + 1, kind |-> "none",
    value |-> NoRow, error |-> NoError,
    sent |-> <<>>, acquired |-> FALSE, releases |-> 0, callback |-> "none",
    poolTest |-> "none", failed |-> "none",
    email |-> <<>>, password |-> <<>>, token |-> 0, tokenType |-> "",
    row |-> NoRow, created |-> 0, verification |-> NoRow, stale |-> FALSE ]

UnchangedServices ==
  /\ UnchangedCredSide
  /\ UnchangedDomainSide
  /\ UNCHANGED << audit, tx >>

\* Database.connect: returns at once when this.pool is set; otherwise builds
\* the pool, assigns it to this.pool, checks a client out, runs SELECT NOW()
\* on it and releases it.  A failure of the check-out or of the query is
\* rethrown as "Database connection failed"; this.pool is not assigned again.
connect(p) ==
  /\ \/ /\ Invoke(p, MaxCalls)
        /\ NoFault
        /\ clients' = clients
        /\ IF pool.set
             THEN /\ Return(p, [CallFrame("connect") EXCEPT
                                  !.kind = "returned", !.poolTest = pool.test])
                  /\ pool' = pool
             ELSE /\ Continue(p, "connect_acquire", CallFrame("connect"))
                  /\ pool' = [set |-> TRUE, id |-> calls + 1, test |-> "running"]
     \/ /\ pc[p] = "connect_acquire"
        /\ UNCHANGED << calls, epoch >>
        /\ \/ /\ NoFault
              /\ clients' = clients + 1
              /\ pool' = pool
              /\ Continue(p, "connect_test", [loc[p] EXCEPT !.acquired = TRUE])
           \/ /\ Fault
              /\ clients' = clients
              /\ pool' = IF pool.id = loc[p].call THEN [pool EXCEPT !.test = "failed"] ELSE pool
              /\ Return(p, [loc[p] EXCEPT
                              !.kind = "raised", !.failed = "connect", !.poolTest = "failed",
                              !.error = <<"Database connection failed">> \o DbError])
     \/ /\ pc[p] = "connect_test"
        /\ UNCHANGED << calls, epoch >>
        /\ \/ /\ NoFault
              /\ clients' = clients - 1
              /\ pool' = IF pool.id = loc[p].call THEN [pool EXCEPT !.test = "passed"] ELSE pool
              /\ Return(p, [loc[p] EXCEPT
                              !.kind = "returned", !.sent = <<"SELECT NOW()">>,
                              !.releases = 1, !.poolTest = "passed"])
           \/ /\ Fault
              /\ clients' = clients
              /\ pool' = IF pool.id = loc[p].call THEN [pool EXCEPT !.test = "failed"] ELSE pool
              /\ Return(p, [loc[p] EXCEPT
                              !.kind = "raised", !.sent = <<"SELECT NOW()">>,
                              !.failed = "SELECT NOW()", !.poolTest = "failed",
                              !.error = <<"Database connection failed">> \o DbError])
  /\ UNCHANGED << users, user_sessions, verification_tokens >>
  /\ UnchangedServices

\* Database.query: throws when this.pool is null; otherwise pool.query, whose
\* error is logged and rethrown.
query(p) ==
  /\ \/ /\ Invoke(p, MaxCalls)
        /\ NoFault
        /\ IF pool.set
             THEN Continue(p, "query_run", [CallFrame("query") EXCEPT !.poolTest = pool.test])
             ELSE Return(p, [CallFrame("query") EXCEPT
                               !.kind = "raised", !.error = <<"Database not connected. Call connect() first.">>])
     \/ /\ pc[p] = "query_run"
        /\ UNCHANGED << calls, epoch >>
        /\ \/ /\ NoFault
              /\ Return(p, [loc[p] EXCEPT !.kind = "returned", !.sent = <<"query">>])
           \/ /\ Fault
              /\ Return(p, [loc[p] EXCEPT !.kind = "raised", !.sent = <<"query">>,
                                         !.failed = "query", !.error = DbError])
  /\ UNCHANGED << users, user_sessions, verification_tokens, pool, clients >>
  /\ UnchangedServices

\* A bug transaction() could have: the client is released at the end of the
\* try and of the catch block, not in a finally, so a failing ROLLBACK skips it.
transactionReleaseInCatch(p) ==
  /\ \/ /\ Invoke(p, MaxCalls)
        /\ NoFault
        /\ clients' = clients
        /\ IF pool.set
             THEN Continue(p, "tx_acquire",
                           [CallFrame("transaction") EXCEPT !.poolTest = pool.test])
             ELSE Return(p, [CallFrame("transaction") EXCEPT
                               !.kind = "raised", !.error = <<"Database not connected. Call connect() first.">>])
     \/ /\ pc[p] = "tx_acquire"
        /\ UNCHANGED << calls, epoch >>
        /\ \/ /\ NoFault
              /\ clients' = clients + 1
              /\ Continue(p, "tx_begin", [loc[p] EXCEPT !.acquired = TRUE])
           \/ /\ Fault
              /\ clients' = clients
              /\ Return(p, [loc[p] EXCEPT !.kind = "raised", !.failed = "connect",
                                         !.error = DbError])
     \/ /\ pc[p] = "tx_begin"
        /\ UNCHANGED << calls, epoch, clients >>
        /\ LET f == [loc[p] EXCEPT !.sent = Append(@, "BEGIN")]
           IN  \/ /\ NoFault
                  /\ Continue(p, "tx_callback", f)
               \/ /\ Fault
                  /\ Continue(p, "tx_rollback", [f EXCEPT !.failed = "BEGIN", !.error = DbError])
     \/ /\ pc[p] = "tx_callback"
        /\ UNCHANGED << calls, epoch, clients >>
        /\ \/ /\ NoFault
              /\ Continue(p, "tx_commit", [loc[p] EXCEPT !.callback = "completed"])
           \/ /\ NoFault
              /\ Continue(p, "tx_rollback",
                          [loc[p] EXCEPT !.callback = "threw", !.failed = "callback",
                                         !.error = <<"callback error">>])
           \/ /\ Fault
              /\ Continue(p, "tx_rollback",
                          [loc[p] EXCEPT !.callback = "threw", !.failed = "callback",
                                         !.error = DbError])
     \/ /\ pc[p] = "tx_commit"
        /\ UNCHANGED << calls, epoch >>
        /\ LET f == [loc[p] EXCEPT !.sent = Append(@, "COMMIT")]
           IN  \/ /\ NoFault
                  /\ clients' = clients - 1
                  /\ Return(p, [f EXCEPT !.kind = "returned", !.releases = @ + 1])
               \/ /\ Fault
                  /\ clients' = clients
                  /\ Continue(p, "tx_rollback", [f EXCEPT !.failed = "COMMIT", !.error = DbError])
     \/ /\ pc[p] = "tx_rollback"
        /\ UNCHANGED << calls, epoch >>
        /\ LET f == [loc[p] EXCEPT !.sent = Append(@, "ROLLBACK"), !.kind = "raised"]
           IN  \/ /\ NoFault
                  /\ clients' = clients - 1
                  /\ Return(p, [f EXCEPT !.releases = @ + 1])
               \/ /\ Fault
                  /\ clients' = clients
                  /\ Return(p, [f EXCEPT !.failed = "ROLLBACK",
                                         !.error = <<"rollback error">> \o DbError])
  /\ UNCHANGED << users, user_sessions, verification_tokens, pool >>
  /\ UnchangedServices

\* Database.transaction: throws when this.pool is null; checks a client out;
\* try { BEGIN; callback(client); COMMIT } catch { ROLLBACK; rethrow }
\* finally { client.release() }.  The callback ends normally or throws.
transaction(p) ==
  /\ \/ /\ Invoke(p, MaxCalls)
        /\ NoFault
        /\ clients' = clients
        /\ IF pool.set
             THEN Continue(p, "tx_acquire",
                           [CallFrame("transaction") EXCEPT !.poolTest = pool.test])
             ELSE Return(p, [CallFrame("transaction") EXCEPT
                               !.kind = "raised", !.error = <<"Database not connected. Call connect() first.">>])
     \/ /\ pc[p] = "tx_acquire"
        /\ UNCHANGED << calls, epoch >>
        /\ \/ /\ NoFault
              /\ clients' = clients + 1
              /\ Continue(p, "tx_begin", [loc[p] EXCEPT !.acquired = TRUE])
           \/ /\ Fault
              /\ clients' = clients
              /\ Return(p, [loc[p] EXCEPT !.kind = "raised", !.failed = "connect",
                                         !.error = DbError])
     \/ /\ pc[p] = "tx_begin"
        /\ UNCHANGED << calls, epoch, clients >>
        /\ LET f == [loc[p] EXCEPT !.sent = Append(@, "BEGIN")]
           IN  \/ /\ NoFault
                  /\ Continue(p, "tx_callback", f)
               \/ /\ Fault
                  /\ Continue(p, "tx_rollback", [f EXCEPT !.failed = "BEGIN", !.error = DbError])
     \/ /\ pc[p] = "tx_callback"
        /\ UNCHANGED << calls, epoch, clients >>
        /\ \/ /\ NoFault
              /\ Continue(p, "tx_commit", [loc[p] EXCEPT !.callback = "completed"])
           \/ /\ NoFault
              /\ Continue(p, "tx_rollback",
                          [loc[p] EXCEPT !.callback = "threw", !.failed = "callback",
                                         !.error = <<"callback error">>])
           \/ /\ Fault
              /\ Continue(p, "tx_rollback",
                          [loc[p] EXCEPT !.callback = "threw", !.failed = "callback",
                                         !.error = DbError])
     \/ /\ pc[p] = "tx_commit"
        /\ UNCHANGED << calls, epoch >>
        /\ LET f == [loc[p] EXCEPT !.sent = Append(@, "COMMIT")]
           IN  \/ /\ NoFault
                  /\ clients' = clients - 1
                  /\ Return(p, [f EXCEPT !.kind = "returned", !.releases = @ + 1])
               \/ /\ Fault
                  /\ clients' = clients
                  /\ Continue(p, "tx_rollback", [f EXCEPT !.failed = "COMMIT", !.error = DbError])
     \/ /\ pc[p] = "tx_rollback"
        /\ UNCHANGED << calls, epoch >>
        /\ clients' = clients - 1
        /\ LET f == [loc[p] EXCEPT !.sent = Append(@, "ROLLBACK"), !.kind = "raised",
                                   !.releases = @ + 1]
           IN  \/ /\ NoFault
                  /\ Return(p, f)
               \/ /\ Fault
                  /\ Return(p, [f EXCEPT !.failed = "ROLLBACK",
                                         !.error = <<"rollback error">> \o DbError])
  /\ UNCHANGED << users, user_sessions, verification_tokens, pool >>
  /\ UnchangedServices

\* Database.close: when this.pool is set, await pool.end() and then set
\* this.pool to null.
close(p) ==
  /\ \/ /\ Invoke(p, MaxCalls)
        /\ pool' = pool
        /\ IF pool.set
             THEN Continue(p, "close_end", CallFrame("close"))
             ELSE Return(p, [CallFrame("close") EXCEPT !.kind = "returned"])
     \/ /\ pc[p] = "close_end"
        /\ UNCHANGED << calls, epoch >>
        /\ pool' = PoolNull
        /\ Return(p, [loc[p] EXCEPT !.kind = "returned"])
  /\ NoFault
  /\ UNCHANGED << users, user_sessions, verification_tokens, clients >>
  /\ UnchangedServices

\* --------------------------- AuthenticationService (services/authentication)
\* Strings handed to the service are sequences of characters.  The rows:
\*   users                [id, email, password_hash, account_status]
\*   user_sessions        [session_token, user_id, expired]
\*   verification_tokens  [id, token, token_type, user_id, used, expired]
\* `expired` stands for expires_at <= NOW() at the time the row is read.
\* History kept in the rows, read by the properties only:
\*   users.by            the call whose INSERT created the row (0: before the
\*                       behaviour);
\*   users.replaced      the password hashes that a resetPassword which
\*                       returned success took out of the row;
\*   user_sessions.checked  the password hash the call that created the
\*                       session had verified (login) or had stored (register);
\*   verification_tokens.accepted  the number of verifyToken calls that
\*                       answered valid for the row.
MaxAuthCalls == 3   \* calls of the authentication service in one behaviour
MinPasswordLen == 8

\* validator.isEmail, as far as the addresses used here go: one "@", with
\* something before and after it.
isEmail(s) ==
  /\ Cardinality({ i \in 1..Len(s) : s[i] = "@" }) = 1
  /\ s[1] # "@"
  /\ s[Len(s)] # "@"

toLowerCase(s) ==
  LET lower == [ c \in {"A", "B", "N", "P"} |->
                   CASE c = "A" -> "a" [] c = "B" -> "b" [] c = "N" -> "n" [] c = "P" -> "p" ]
  IN  [ i \in 1..Len(s) |-> IF s[i] \in DOMAIN lower THEN lower[s[i]] ELSE s[i] ]

\* isValidPassword: length, and one character of each of the four classes.
isValidPassword(password) ==
  LET has(class) == \E i \in 1..Len(password) : password[i] \in class
  IN  /\ ~ (Len(password) < MinPasswordLen)
      /\ has({"A", "B", "N", "P"})
      /\ has({"a", "b", "d", "e", "n", "p", "r", "s", "w", "x"})
      /\ has({"0", "1"})
      /\ has({"!", "#", "@"})

\* bcrypt: the hash is salted, so two hashes of one password differ; compare
\* accepts exactly the password the hash was made of.
hashPassword(password, salt) ==
  [algorithm |-> "bcrypt", salt |-> salt, password |-> password]
verifyPassword(password, hash) == hash.password = password

\* AuthenticationService.register: validateRegistrationData, findUserByEmail
\* with the address as given, hashPassword, createUser with the address in
\* lower case, createVerificationToken, createUserSession; every statement
\* commits on its own, and the catch turns any error into a failure result.
register(p) ==
  LET Failure(f, error) ==
        [f EXCEPT !.kind = "returned",
                  !.value = [success |-> FALSE, error |-> error, sessionToken |-> 0]]
      Caught(f, stmt, error) ==
        [Failure(f, <<"Registration failed: ">> \o error) EXCEPT !.failed = stmt]
  IN
  /\ \/ /\ Invoke(p, MaxAuthCalls)
        /\ NoFault
        /\ UNCHANGED << users, user_sessions, verification_tokens >>
        /\ \E email \in { <<"A", "@", "x">>, <<"b", "@", "x">>, <<"b", "x">> },
              password \in { <<"N", "e", "w", "p", "a", "s", "s", "1", "#">>,
                             <<"N", "e", "w", "p", "a", "s", "s", "1">> } :
             LET f == [CallFrame("register") EXCEPT !.email = email, !.password = password]
             IN  IF ~ isEmail(email)
                   THEN Return(p, Failure(f, <<"Valid email is required">>))
                 ELSE IF ~ isValidPassword(password)
                   THEN Return(p, Failure(f, <<"Password must be at least 8 characters long and contain uppercase, lowercase, number, and special character">>))
                 ELSE Continue(p, "register_find", f)
     \/ /\ pc[p] = "register_find"
        /\ UNCHANGED << calls, epoch, users, user_sessions, verification_tokens >>
        /\ \/ /\ Fault
              /\ Return(p, Caught(loc[p], "find", DbError))
           \/ /\ NoFault
              /\ LET found == { u \in users : u.email = loc[p].email
                                              /\ u.account_status = "active" }
                 IN  IF found # {}
                       THEN Return(p, [Failure(loc[p], <<"User with this email already exists">>)
                                         EXCEPT !.row = CHOOSE u \in found : TRUE])
                       ELSE Continue(p, "register_create", loc[p])
     \/ /\ pc[p] = "register_create"
        /\ UNCHANGED << calls, epoch, user_sessions, verification_tokens >>
        /\ \/ /\ Fault
              /\ users' = users
              /\ Return(p, Caught(loc[p], "createUser", DbError))
           \/ /\ NoFault
              /\ LET email == toLowerCase(loc[p].email)
                     id    == 1 + Cardinality(users)
                     hash  == hashPassword(loc[p].password, loc[p].call)
                 IN  IF \E u \in users : u.email = email
                       THEN /\ users' = users
                            /\ Return(p, Caught(loc[p], "createUser", UniqueError))
                       ELSE /\ users' = users \cup
                                 { [id |-> id, email |-> email, password_hash |-> hash,
                                    account_status |-> "active",
                                    by |-> loc[p].call, replaced |-> {}] }
                            /\ Continue(p, "register_token",
                                        [loc[p] EXCEPT !.created = id, !.row = hash])
     \/ /\ pc[p] = "register_token"
        /\ UNCHANGED << calls, epoch, users, user_sessions >>
        /\ \/ /\ Fault
              /\ verification_tokens' = verification_tokens
              /\ Return(p, Caught(loc[p], "createVerificationToken", DbError))
           \/ /\ NoFault
              /\ verification_tokens' = verification_tokens \cup
                   { [id |-> 1 + Cardinality(verification_tokens), token |-> loc[p].call,
                      token_type |-> "email_verification", user_id |-> loc[p].created,
                      used |-> FALSE, expired |-> FALSE, accepted |-> 0] }
              /\ Continue(p, "register_session", loc[p])
     \/ /\ pc[p] = "register_session"
        /\ UNCHANGED << calls, epoch, users, verification_tokens >>
        /\ \/ /\ Fault
              /\ user_sessions' = user_sessions
              /\ Return(p, Caught(loc[p], "createSession", DbError))
           \/ /\ NoFault
              /\ user_sessions' = user_sessions \cup
                   { [session_token |-> loc[p].call, user_id |-> loc[p].created,
                      expired |-> FALSE, checked |-> loc[p].row] }
              /\ Return(p, [loc[p] EXCEPT
                              !.kind = "returned",
                              !.value = [success |-> TRUE, error |-> NoError,
                                         sessionToken |-> loc[p].call]])
  /\ UNCHANGED << pool, clients >>
  /\ UnchangedServices

\* AuthenticationService.login: input checks, findUserByEmail with the address
\* in lower case, verifyPassword against the hash of the row that was read,
\* updateUserLastLogin, createUserSession.  The four awaits are separate
\* statements; nothing is read again after the password was verified.
login(p) ==
  LET Failure(f, error) ==
        [f EXCEPT !.kind = "returned",
                  !.value = [success |-> FALSE, error |-> error, sessionToken |-> 0]]
      Caught(f, stmt) ==
        [Failure(f, <<"Login failed: ">> \o DbError) EXCEPT !.failed = stmt]
  IN
  /\ \/ /\ Invoke(p, MaxAuthCalls)
        /\ NoFault
        /\ user_sessions' = user_sessions
        /\ \E email \in { <<"A", "@", "x">>, <<"a", "x">> },
              password \in { <<"P", "a", "s", "s", "w", "0", "r", "d", "!">>,
                             <<"N", "e", "w", "p", "a", "s", "s", "1", "#">>, <<>> } :
             LET f == [CallFrame("login") EXCEPT !.email = email, !.password = password]
             IN  IF ~ isEmail(email)
                   THEN Return(p, Failure(f, <<"Invalid email format">>))
                 ELSE IF Len(password) < 1
                   THEN Return(p, Failure(f, <<"Password is required">>))
                 ELSE Continue(p, "login_find", f)
     \/ /\ pc[p] = "login_find"
        /\ UNCHANGED << calls, epoch, user_sessions >>
        /\ \/ /\ Fault
              /\ Return(p, Caught(loc[p], "find"))
           \/ /\ NoFault
              /\ LET found == { u \in users : u.email = toLowerCase(loc[p].email)
                                              /\ u.account_status = "active" }
                 IN  IF found = {}
                       THEN Return(p, Failure(loc[p], <<"Invalid email or password">>))
                     ELSE LET user == CHOOSE u \in found : TRUE
                          IN  IF ~ verifyPassword(loc[p].password, user.password_hash)
                                THEN Return(p, [Failure(loc[p], <<"Invalid email or password">>)
                                                  EXCEPT !.row = user])
                                ELSE Continue(p, "login_update", [loc[p] EXCEPT !.row = user])
     \/ /\ pc[p] = "login_update"
        /\ UNCHANGED << calls, epoch, user_sessions >>
        /\ \/ /\ Fault
              /\ Return(p, Caught(loc[p], "updateUserLastLogin"))
           \/ /\ NoFault
              /\ Continue(p, "login_session", loc[p])
     \/ /\ pc[p] = "login_session"
        /\ UNCHANGED << calls, epoch >>
        /\ \/ /\ Fault
              /\ user_sessions' = user_sessions
              /\ Return(p, Caught(loc[p], "createSession"))
           \/ /\ NoFault
              /\ user_sessions' = user_sessions \cup
                   { [session_token |-> loc[p].call, user_id |-> loc[p].row.id,
                      expired |-> FALSE, checked |-> loc[p].row.password_hash] }
              /\ Return(p, [loc[p] EXCEPT
                              !.kind = "returned",
                              !.value = [success |-> TRUE, error |-> NoError,
                                         sessionToken |-> loc[p].call]])
  /\ UNCHANGED << users, verification_tokens, pool, clients >>
  /\ UnchangedServices

\* AuthenticationService.validateSession: findSessionByToken (the session
\* joined with its user, unexpired, the account active), then the UPDATE of
\* last_activity; null when no row is found and on every error.  `stale`
\* records whether, when the row was found, a resetPassword that returned
\* success had already replaced the password hash the session was created on.
validateSession(p) ==
  /\ \/ /\ Invoke(p, MaxAuthCalls)
        /\ NoFault
        /\ \E sessionToken \in { s.session_token : s \in user_sessions } \cup { 100 } :
             Continue(p, "validateSession_find",
                      [CallFrame("validateSession") EXCEPT !.token = sessionToken])
     \/ /\ pc[p] = "validateSession_find"
        /\ UNCHANGED << calls, epoch >>
        /\ \/ /\ Fault
              /\ Return(p, [loc[p] EXCEPT !.kind = "returned", !.failed = "find"])
           \/ /\ NoFault
              /\ LET found == { <<s, u>> \in user_sessions \X users :
                                  /\ s.user_id = u.id
                                  /\ s.session_token = loc[p].token
                                  /\ ~ s.expired
                                  /\ u.account_status = "active" }
                 IN  IF found = {}
                       THEN Return(p, [loc[p] EXCEPT !.kind = "returned"])
                       ELSE LET session == CHOOSE su \in found : TRUE
                            IN  Continue(p, "validateSession_touch",
                                         [loc[p] EXCEPT
                                            !.row = session[1],
                                            !.stale = session[1].checked \in session[2].replaced,
                                            !.value = [id |-> session[2].id,
                                                       email |-> session[2].email]])
     \/ /\ pc[p] = "validateSession_touch"
        /\ UNCHANGED << calls, epoch >>
        /\ \/ /\ Fault
              /\ Return(p, [loc[p] EXCEPT !.kind = "returned", !.failed = "touch",
                                         !.value = NoRow])
           \/ /\ NoFault
              /\ Return(p, [loc[p] EXCEPT !.kind = "returned"])
  /\ UNCHANGED << users, user_sessions, verification_tokens, pool, clients >>
  /\ UnchangedServices

\* AuthenticationService.verifyToken: the SELECT of an unused, unexpired row
\* of that token and type, then, as a second statement, the UPDATE that marks
\* the row of that id used, whatever its used column holds by then; { valid:
\* false } when no row is selected and on every error.  Called by a client, or
\* by resetPassword, which goes on with the answer.
verifyToken(p) ==
  LET Answer(f, verification) ==
        IF f.op = "verifyToken"
          THEN Return(p, [f EXCEPT !.kind = "returned", !.value = verification,
                                   !.verification = verification])
          ELSE Continue(p, "resetPassword_verified", [f EXCEPT !.verification = verification])
      Invalid == [valid |-> FALSE, userId |-> 0]
  IN
  /\ \/ /\ Invoke(p, MaxAuthCalls)
        /\ NoFault
        /\ verification_tokens' = verification_tokens
        /\ \E token \in { 101, 103 }, tokenType \in { "password_reset", "email_verification" } :
             Continue(p, "verifyToken_select",
                      [CallFrame("verifyToken") EXCEPT !.token = token, !.tokenType = tokenType])
     \/ /\ pc[p] = "verifyToken_select"
        /\ UNCHANGED << calls, epoch, verification_tokens >>
        /\ \/ /\ Fault
              /\ Answer([loc[p] EXCEPT !.failed = "select"], Invalid)
           \/ /\ NoFault
              /\ LET rows == { t \in verification_tokens :
                                 /\ t.token = loc[p].token
                                 /\ t.token_type = loc[p].tokenType
                                 /\ ~ t.expired
                                 /\ t.used = FALSE }
                 IN  IF rows = {}
                       THEN Answer(loc[p], Invalid)
                       ELSE Continue(p, "verifyToken_update",
                                     [loc[p] EXCEPT !.row = CHOOSE t \in rows : TRUE])
     \/ /\ pc[p] = "verifyToken_update"
        /\ UNCHANGED << calls, epoch >>
        /\ \/ /\ Fault
              /\ verification_tokens' = verification_tokens
              /\ Answer([loc[p] EXCEPT !.failed = "update"], Invalid)
           \/ /\ NoFault
              /\ verification_tokens' =
                   { IF t.id = loc[p].row.id
                       THEN [t EXCEPT !.used = TRUE, !.accepted = @ + 1]
                       ELSE t : t \in verification_tokens }
              /\ Answer(loc[p], [valid |-> TRUE, userId |-> loc[p].row.user_id])
  /\ UNCHANGED << users, user_sessions, pool, clients >>
  /\ UnchangedServices

\* AuthenticationService.resetPassword: isValidPassword, verifyToken for a
\* password_reset token, hashPassword, the UPDATE of users.password_hash and
\* the DELETE of the user's sessions, each statement committing on its own.
resetPassword(p) ==
  LET Failure(f, error) ==
        [f EXCEPT !.kind = "returned", !.value = [success |-> FALSE, error |-> error]]
  IN
  /\ \/ /\ Invoke(p, MaxAuthCalls)
        /\ NoFault
        /\ UNCHANGED << users, user_sessions >>
        /\ \E token \in { 101, 103 },
              newPassword \in { <<"N", "e", "w", "p", "a", "s", "s", "1", "#">>,
                                <<"n", "e", "w">> } :
             LET f == [CallFrame("resetPassword") EXCEPT
                         !.token = token, !.tokenType = "password_reset",
                         !.password = newPassword]
             IN  IF ~ isValidPassword(newPassword)
                   THEN Return(p, Failure(f, <<"Password must be at least 8 characters long and contain uppercase, lowercase, number, and special character">>))
                   ELSE Continue(p, "verifyToken_select", f)
     \/ /\ pc[p] = "resetPassword_verified"
        /\ UNCHANGED << calls, epoch, users, user_sessions >>
        /\ NoFault
        /\ IF ~ loc[p].verification.valid \/ loc[p].verification.userId = 0
             THEN Return(p, Failure(loc[p], <<"Invalid or expired reset token">>))
             ELSE Continue(p, "resetPassword_update", loc[p])
     \/ /\ pc[p] = "resetPassword_update"
        /\ UNCHANGED << calls, epoch, user_sessions >>
        /\ \/ /\ Fault
              /\ users' = users
              /\ Return(p, [Failure(loc[p], <<"Failed to reset password">>)
                              EXCEPT !.failed = "update"])
           \/ /\ NoFault
              /\ users' = { IF u.id = loc[p].verification.userId
                              THEN [u EXCEPT !.password_hash =
                                                hashPassword(loc[p].password, loc[p].call)]
                              ELSE u : u \in users }
              /\ Continue(p, "resetPassword_delete",
                          [loc[p] EXCEPT !.row =
                             { u.password_hash : u \in { v \in users :
                                                  v.id = loc[p].verification.userId } }])
     \/ /\ pc[p] = "resetPassword_delete"
        /\ UNCHANGED << calls, epoch >>
        /\ \/ /\ Fault
              /\ UNCHANGED << users, user_sessions >>
              /\ Return(p, [Failure(loc[p], <<"Failed to reset password">>)
                              EXCEPT !.failed = "delete"])
           \/ /\ NoFault
              /\ user_sessions' = { s \in user_sessions : s.user_id # loc[p].verification.userId }
              /\ users' = { IF u.id = loc[p].verification.userId
                              THEN [u EXCEPT !.replaced = @ \cup loc[p].row]
                              ELSE u : u \in users }
              /\ Return(p, [loc[p] EXCEPT !.kind = "returned",
                                         !.value = [success |-> TRUE, error |-> NoError]])
  /\ UNCHANGED << verification_tokens, pool, clients >>
  /\ UnchangedServices

\* ------------------------------------------------------------ specification
\* A behaviour starts from the empty database, or from the database as an
\* earlier, finished run of the handlers left it:
\*   SeedStored    after storeCredentials(1, SeedCreds), call 1;
\*   SeedAdded     then addDomain(1, "a.co") with two signing tokens, call 2;
\*   SeedVerified  then checkDomainVerification(1, 2) answered Success, call 3.
\* Each of them is the state a fault-free sequential run of those calls from
\* SeedEmpty ends in.
SeedCreds ==
  [accessKeyId |-> "AKIA1", secretAccessKey |-> "secret1",
   sessionToken |-> NoToken, region |-> "us-east-1"]
SeedKey    == "key1"
SeedDomain == <<"a", ".", "c", "o">>
SeedDkim   == <<"dk1", "dk2">>
SeedValidation == validateCredentials("identity", "ok")

SeedEmpty ==
  [ creds |-> {}, audit |-> <<>>, domains |-> {}, dns |-> {}, ses |-> {},
    lastWrite |-> [u \in Users |-> NoCreds], calls |-> 0 ]

SeedStored ==
  [ SeedEmpty EXCEPT
      !.creds = { InsertedCredRow(1, 1, SeedCreds,
                                  EncryptFields(SeedKey, IvsBefore(1), SeedCreds), TRUE, 1) },
      !.audit = << AuditEntry(1, "create",
                              DetailValidation(SeedCreds.region, SeedValidation), TRUE) >>,
      !.lastWrite = [@ EXCEPT ![1] = SeedCreds],
      !.calls = 1 ]

SeedDomainRow ==
  [ InsertedDomainRow(2, 1, SeedDomain, VerificationTokenOf(SeedDomain), SeedDkim)
      EXCEPT !.dns_records_generated = TRUE ]

SeedAdded ==
  LET recs == generateAllDNSRecords(SeedDomain, VerificationTokenOf(SeedDomain),
                                    SeedDkim, AddDomainRegion)
  IN  [ SeedStored EXCEPT
          !.audit = Append(@, AuditEntry(1, "access", DetailRegion(SeedCreds.region), TRUE)),
          !.domains = { SeedDomainRow },
          !.dns = { InsertedDnsRow(2, n, recs[n]) : n \in 1..Len(recs) },
          !.ses = { <<1, SeedDomain>> },
          !.calls = 2 ]

SeedVerified ==
  [ SeedAdded EXCEPT
      !.audit = Append(@, AuditEntry(1, "access", DetailRegion(SeedCreds.region), TRUE)),
      !.domains = { CheckedDomainRow(SeedDomainRow,
                                     getDomainVerificationStatus("Success"), 3) },
      !.calls = 3 ]

\* The stored set of a seed as a deployment with another ENCRYPTION_KEY wrote
\* it: the key of the running process no longer opens any field.
Rekeyed(s) ==
  [ s EXCEPT !.creds = { InsertedCredRow(1, 1, SeedCreds,
                                         EncryptFields("key0", IvsBefore(1), SeedCreds),
                                         TRUE, 1) } ]

\* The stored set of a seed with the secret key's tag overwritten in the
\* table (here by the access key's tag): the access key still opens.
Tampered(s) ==
  [ s EXCEPT !.creds = { [r EXCEPT !.secret_key_tag = r.access_key_tag] : r \in @ } ]

\* The tables of the authentication service before any registration.
NoAccounts == [users |-> {}, user_sessions |-> {}, verification_tokens |-> {}]

\* The tables after user 1 registered as a@x and logged in (session 100), and
\* after verification tokens were issued to them: 101, a password_reset token
\* that can be used; 102, the email_verification token of the registration;
\* 103, a password_reset token that has expired.
SeedAccounts ==
  LET hash == hashPassword(<<"P", "a", "s", "s", "w", "0", "r", "d", "!">>, 0)
      Token(id, token, type, expired) ==
        [id |-> id, token |-> token, token_type |-> type, user_id |-> 1,
         used |-> FALSE, expired |-> expired, accepted |-> 0]
  IN  [ users |-> { [id |-> 1, email |-> <<"a", "@", "x">>, password_hash |-> hash,
                     account_status |-> "active", by |-> 0, replaced |-> {}] },
        user_sessions |-> { [session_token |-> 100, user_id |-> 1,
                             expired |-> FALSE, checked |-> hash] },
        verification_tokens |-> { Token(1, 101, "password_reset", FALSE),
                                  Token(2, 102, "email_verification", FALSE),
                                  Token(3, 103, "password_reset", TRUE) } ]

\* The state after construction, over the tables as earlier calls left them:
\* seeds for the tables of the credential and domain services, pools for the
\* Database object, accounts for the tables of the authentication service.
InitWith(seeds, pools, accounts) ==
  /\ pc = [p \in Procs |-> "idle"]
  /\ loc = [p \in Procs |-> Frame0]
  /\ result = [p \in Procs |-> Result0]
  /\ tx = [p \in Procs |-> Tx0]
  /\ envKey = SeedKey
  /\ faults = 0
  /\ pool \in pools
  /\ clients = 0
  /\ \E a \in accounts :
       /\ users = a.users
       /\ user_sessions = a.user_sessions
       /\ verification_tokens = a.verification_tokens
  /\ \E s \in seeds :
       /\ creds = s.creds
       /\ audit = s.audit
       /\ domains = s.domains
       /\ dns = s.dns
       /\ ses = s.ses
       /\ lastWrite = s.lastWrite
       /\ calls = s.calls
       /\ epoch = s.calls

\* The credential and domain services run over a connected pool; the tables
\* of the authentication service play no part in them.
InitFrom(seeds) == InitWith(seeds, {PoolConnected}, {NoAccounts})

\* All handlers together: from the empty database, and from the database with
\* credentials and a pending domain.
Init == InitFrom({SeedEmpty, SeedAdded})

\* The steps of getCredentials after its invocation, which its callers share.
getCredentials_steps(p) ==
  \/ getCredentials_select(p)
  \/ getCredentials_audit(p)
  \/ getCredentials_fail_audit(p)

\* storeCredentials and updateCredentials.
WriteStep(p) ==
  \/ storeCredentials_call(p)
  \/ storeCredentials_begin(p)
  \/ storeCredentials_delete(p)
  \/ storeCredentials_insert(p)
  \/ storeCredentials_audit(p)
  \/ storeCredentials_commit(p)
  \/ storeCredentials_rollback(p)
  \/ storeCredentials_fail_audit(p)
  \/ updateCredentials_call(p)
  \/ updateCredentials_stmt(p)
  \/ updateCredentials_audit(p)
  \/ updateCredentials_fail_audit(p)

\* AWSCredentialsService as its clients call it.
VaultStep(p) ==
  \/ WriteStep(p)
  \/ getCredentials_call(p)
  \/ deleteCredentials_call(p)
  \/ deleteCredentials_stmt(p)
  \/ deleteCredentials_audit(p)
  \/ deleteCredentials_fail_audit(p)
  \/ revalidateCredentials_call(p)
  \/ revalidateCredentials_update(p)
  \/ revalidateCredentials_audit(p)
  \/ revalidateCredentials_fail_audit(p)

\* DomainService as its clients call it.
EngineStep(p) ==
  \/ addDomain_call(p)
  \/ addDomain_find(p)
  \/ addDomain_verify(p)
  \/ addDomain_dkim(p)
  \/ addDomain_begin(p)
  \/ addDomain_insert_domain(p)
  \/ addDomain_insert_dns(p)
  \/ addDomain_mark(p)
  \/ addDomain_commit(p)
  \/ addDomain_rollback(p)
  \/ checkDomainVerification_call(p)
  \/ checkDomainVerification_find(p)
  \/ checkDomainVerification_update(p)
  \/ deleteDomain_call(p)
  \/ deleteDomain_find(p)
  \/ deleteDomain_ses(p)
  \/ deleteDomain_delete(p)

Next == \E p \in Procs : VaultStep(p) \/ EngineStep(p) \/ getCredentials_steps(p)

Spec == Init /\ [][Next]_vars

\* The credential vault alone, from the empty database and from stored credentials.
SpecVault ==
  /\ InitFrom({SeedEmpty, SeedStored})
  /\ [][\E p \in Procs : VaultStep(p) \/ getCredentials_steps(p)]_vars

\* Sequences of storeCredentials and updateCredentials calls alone.
SpecWrites ==
  /\ InitFrom({SeedEmpty, SeedStored})
  /\ [][\E p \in Procs : WriteStep(p)]_vars

\* The domain engine alone, over the credentials found in the database.
SpecEngine ==
  /\ InitFrom({SeedEmpty, SeedStored, SeedAdded, SeedVerified})
  /\ [][\E p \in Procs : EngineStep(p) \/ getCredentials_steps(p)]_vars

\* ------------------------------------------------------------- properties
CredRowsOf(u) == { r \in creds : r.user_id = u }

\* The credential vault over a stored set that opens, one written under
\* another key, and one with a field changed in the table.
SpecDamaged ==
  /\ InitFrom({SeedStored, Rekeyed(SeedStored), Tampered(SeedStored)})
  /\ [][\E p \in Procs : VaultStep(p) \/ getCredentials_steps(p)]_vars

\* Calls of the side-effect-free entry points by a client.
SpecCalls ==
  /\ InitFrom({SeedEmpty, SeedStored})
  /\ [][ \E p \in Procs :
           \/ validateCredentials_call(p)
           \/ generateAllDNSRecords_call(p)
           \/ encrypt_call(p)
           \/ decrypt_call(p) ]_vars

\* The Database object used directly: connect, query, transaction and close,
\* from the object as constructed and from a connected one.
SpecDatabase ==
  /\ InitWith({SeedEmpty}, {PoolNull, PoolConnected}, {NoAccounts})
  /\ [][ \E p \in Procs : connect(p) \/ query(p) \/ transaction(p) \/ close(p) ]_vars

\* The authentication service, over empty tables and over the tables of a
\* registered user, with the pool connected.
SpecAuth ==
  /\ InitWith({SeedEmpty}, {PoolConnected}, {NoAccounts, SeedAccounts})
  /\ [][ \E p \in Procs :
           \/ register(p)
           \/ login(p)
           \/ validateSession(p)
           \/ verifyToken(p)
           \/ resetPassword(p) ]_vars

\* Every handler and the provisioning client's listing, over stored
\* credentials that open and stored credentials written under another key.
SpecSes ==
  /\ InitFrom({SeedAdded, Rekeyed(SeedAdded)})
  /\ [][ \E p \in Procs :
           \/ VaultStep(p) \/ EngineStep(p) \/ getCredentials_steps(p)
           \/ listIdentities_call(p) \/ listIdentities_send(p) ]_vars

\* The stages of a storeCredentials call after its validation.
StoreStages ==
  { "store_begin", "store_delete", "store_delete_wait", "store_insert",
    "store_audit", "store_commit", "store_rollback", "store_fail_audit" }

\* The call of p ends in this step (call numbers are never reused).
CallEnds(p) == result'[p].call \notin {0, result[p].call}



\* C1 (as amended): in every state reached by storeCredentials and
\* updateCredentials calls, sequential or concurrent, a principal has at most
\* one committed credential row, and exactly one once a write of that
\* principal has succeeded.
C1_AtMostOneCredentialRow ==
  \A u \in Users :
    /\ Cardinality(CredRowsOf(u)) <= 1
    /\ lastWrite[u] # NoCreds => Cardinality(CredRowsOf(u)) = 1

\* A store for a principal that had a row has returned, and one row is there.
C1_Witness ==
  \E p \in Procs :
    /\ result[p].op = "store"
    /\ result[p].kind = "returned"
    /\ result[p].user = 1
    /\ epoch = 1
    /\ CredRowsOf(1) = { result[p].value }

\* C1 as the specification words it: once any storeCredentials or
\* updateCredentials call for a principal has ended, exactly one credential
\* row exists for that principal.
C1_ExactlyOneAfterAnyCall ==
  \A p \in Procs :
    result[p].op \in {"store", "update"}
      => Cardinality(CredRowsOf(result[p].user)) = 1

\* C2: a storeCredentials call whose validation failed ends in its first step
\* by raising "Invalid credentials", with no table and no transaction touched;
\* a call goes on to encrypt and to the database only with a passed validation.
C2_ValidationGate ==
  [][ \A p \in Procs :
        /\ (pc'[p] \in StoreStages => loc'[p].val.valid)
        /\ (loc'[p].enc # NoEnc => loc'[p].val.valid)
        /\ (/\ CallEnds(p)
            /\ result'[p].op = "store"
            /\ ~result'[p].val.valid)
             => /\ pc[p] = "idle"
                /\ result'[p].kind = "raised"
                /\ Head(result'[p].error) = "Invalid credentials"
                /\ UNCHANGED << creds, audit, tx, domains, dns, lastWrite >> ]_vars

\* A store was rejected by validation while the principal has no row.
C2_Witness ==
  \E p \in Procs :
    /\ result[p].op = "store"
    /\ result[p].kind = "raised"
    /\ ~result[p].val.valid
    /\ result[p].val.probed
    /\ CredRowsOf(result[p].user) = {}

\* The row of `domains` with the id of row r, after this step.
SameDomainAfter(r) == { r2 \in domains' : r2.id = r.id }

DnsRowsOf(id) == { d \in dns : d.domain_id = id }
DnsRowsAfter(id) == { d \in dns' : d.domain_id = id }

\* What the domain table and the DNS record table promise about row r.
DomainRowComplete(r, records) ==
  /\ r.dns_records_generated = TRUE
  /\ Cardinality(records) = Len(r.dkim_tokens) + 4

\* C5: every committed domain row has dns_records_generated = true and
\* exactly k + 4 DNS record rows, k the number of its signing tokens; and
\* when addDomain returns success, the committed state holds exactly one row
\* for its (principal, name), pending and complete in that sense.
C5_DomainCommittedWhole ==
  /\ [](\A r \in domains : DomainRowComplete(r, DnsRowsOf(r.id)))
  /\ [][ \A p \in Procs :
           (/\ CallEnds(p)
            /\ result'[p].op = "addDomain"
            /\ result'[p].value.success)
             => \E r \in domains' :
                  /\ r.id = result'[p].value.domain.id
                  /\ r.user_id = result'[p].user
                  /\ r.dkim_tokens = result'[p].value.domain.dkim_tokens
                  /\ r.verification_status = "pending"
                  /\ DomainRowComplete(r, DnsRowsAfter(r.id))
                  /\ \A r2 \in domains' :
                       (r2.user_id = r.user_id /\ r2.domain_name = r.domain_name)
                         => r2 = r ]_vars

\* addDomain returned success for an identity with two signing tokens, and
\* its six DNS record rows are committed.
C5_Witness ==
  \E p \in Procs :
    /\ result[p].op = "addDomain"
    /\ result[p].value.success
    /\ Len(result[p].value.domain.dkim_tokens) = 2
    /\ Cardinality(DnsRowsOf(result[p].call)) = 6
    /\ \E r \in domains : r.id = result[p].call /\ r.dns_records_generated

\* The plaintexts a write may encrypt.
Plaintexts ==
  UNION { {c.accessKeyId, c.secretAccessKey, c.sessionToken} : c \in CredInputs }

\* Ciphertext, IV and tag are the output of one encrypt call (or all absent).
FromOneWrite(ct, iv, tag) ==
  \/ ct = NullBlob /\ iv = NullIv /\ tag = NullBlob
  \/ /\ iv # NullIv
     /\ \E pt \in Plaintexts :
          [encryptedData |-> ct, iv |-> iv, tag |-> tag] = encrypt(envKey, iv, pt)

\* C6: the row a getCredentials has read, whatever writes run beside it,
\* holds for every field a ciphertext, IV and tag of one and the same
\* encryption, and its decryption never fails.
C6_NoHalfWrittenRead ==
  \A p \in Procs :
    /\ pc[p] # "get_fail_audit" \/ loc[p].err # DecryptError
    /\ (pc[p] \in {"get_audit", "get_fail_audit"} /\ loc[p].stored # NoRow)
         => LET row == loc[p].stored
            IN  /\ FromOneWrite(row.encrypted_access_key, row.access_key_iv,
                                row.access_key_tag)
                /\ FromOneWrite(row.encrypted_secret_key, row.secret_key_iv,
                                row.secret_key_tag)
                /\ FromOneWrite(row.encrypted_session_token, row.session_token_iv,
                                row.session_token_tag)

\* A getCredentials has read the row an updateCredentials wrote while another
\* write is in flight beside it.
C6_Witness ==
  \E p \in Procs : \E q \in Procs \ {p} :
    /\ pc[p] = "get_audit"
    /\ loc[p].stored.access_key_iv > IvsPerCall
    /\ loc[q].op \in {"store", "update", "delete"}

VaultOps == {"store", "get", "update", "delete", "revalidate"}

\* C7 as the specification words it: a credential operation whose primary
\* part succeeded and whose only failure is an audit write returns normally,
\* and the row a store returns is the committed one.
C7_AuditFailureIsHarmless ==
  [][ \A p \in Procs :
        (/\ CallEnds(p)
         /\ result'[p].op \in VaultOps
         /\ result'[p].primaryOk
         /\ result'[p].auditFailed
         /\ ~result'[p].dbFailed)
          => /\ result'[p].kind = "returned"
             /\ result'[p].op = "store" => result'[p].value \in creds' ]_vars

\* A storeCredentials whose row was inserted raised, the audit write having
\* been its only failure, and the principal has no row.
C7_Witness ==
  \E p \in Procs :
    /\ result[p].op = "store"
    /\ result[p].kind = "raised"
    /\ result[p].primaryOk
    /\ result[p].auditFailed
    /\ ~result[p].dbFailed
    /\ CredRowsOf(result[p].user) = {}

\* C8: every step leaves the committed audit entries in place and unchanged;
\* the log only grows at its end.
C8_AuditAppendOnly ==
  [][ /\ Len(audit') >= Len(audit)
      /\ \A i \in 1..Len(audit) : audit'[i] = audit[i] ]_vars

\* The log holds two entries of the same principal and action, written by
\* different operations of the behaviour.
C8_Witness ==
  \E i \in 1..Len(audit) : \E j \in 1..Len(audit) :
    /\ i < j
    /\ audit[i].user_id = audit[j].user_id
    /\ audit[i].action = audit[j].action
    /\ Len(audit) >= epoch + 2

\* The credentials as getCredentials hands them out: a session token that
\* is empty counts as not supplied.
Supplied(c) ==
  IF c = NoCreds THEN NoCreds
  ELSE [c EXCEPT !.sessionToken = IF TruthyToken(@) THEN @ ELSE NoToken]

\* C9: what getCredentials returns is exactly the access key, secret key,
\* session token and region of the principal's most recent committed write at
\* the time of its read (nothing, when there is none or it was deleted).
C9_LatestWins ==
  \A p \in Procs :
    (result[p].op = "get" /\ result[p].kind = "returned")
      => result[p].value = Supplied(result[p].expect)

\* getCredentials returned the credentials a later write put in place of the
\* ones the behaviour started with.
C9_Witness ==
  \E p \in Procs :
    /\ result[p].op = "get"
    /\ result[p].kind = "returned"
    /\ epoch = 1
    /\ result[p].value = [accessKeyId |-> "AKIA2", secretAccessKey |-> "secret2",
                          sessionToken |-> "token2", region |-> "eu-west-1"]

\* C10: a (principal, name) pair has at most one committed domain row, and an
\* addDomain call that returned failure has committed no domain row and no DNS
\* record row.
C10_OneDomainPerName ==
  /\ \A r1 \in domains : \A r2 \in domains :
       (r1.user_id = r2.user_id /\ r1.domain_name = r2.domain_name) => r1 = r2
  /\ \A p \in Procs :
       (result[p].op = "addDomain" /\ ~result[p].value.success)
         => /\ \A r \in domains : r.id # result[p].call
            /\ \A d \in dns : d.domain_id # result[p].call

\* Two addDomain calls for one pair both had the identity created; one
\* committed its row, the other was rejected by the unique key.
C10_Witness ==
  \E p \in Procs : \E q \in Procs \ {p} :
    /\ result[p].op = "addDomain"
    /\ result[q].op = "addDomain"
    /\ result[p].value.success
    /\ ~result[q].value.success
    /\ result[q].value.error = <<"Failed to add domain">> \o UniqueError
    /\ \E r \in domains : r.id = result[p].call /\ r.user_id = result[q].user

\* C11: in every state, whatever the interleaving of the storeCredentials
\* calls of one principal with each other and with the other credential
\* handlers, the principal has at most one committed credential row, no
\* request sees more than one, and no two open transactions both hold an
\* inserted row of the principal.
C11_OneRowUnderConcurrency ==
  \A u \in Users :
    /\ Cardinality(CredRowsOf(u)) <= 1
    /\ \A p \in Procs : Cardinality({ r \in CredRowsOf(u) : r.id \notin tx[p].delCreds }
                                        \cup { r \in tx[p].insCreds : r.user_id = u }) <= 1
    /\ \A p, q \in Procs :
         (p # q /\ \E r \in tx[p].insCreds : r.user_id = u)
           => ~(\E r \in tx[q].insCreds : r.user_id = u)

\* Two storeCredentials calls of one principal raced: one returned its row,
\* the other lost on the unique key, and one row is there.
C11_Witness ==
  \E p, q \in Procs :
    /\ p # q
    /\ result[p].op = "store" /\ result[q].op = "store"
    /\ result[p].user = result[q].user
    /\ result[p].kind = "returned"
    /\ result[q].kind = "raised"
    /\ result[q].error = <<"Failed to store credentials">> \o UniqueError
    /\ CredRowsOf(result[p].user) = { result[p].value }

\* The rows an addDomain call committed: ids are the numbers of the calls
\* that insert them.
DomainRowsWrittenBy(n) == { r \in domains : r.id = n }
DnsRowsWrittenBy(n)    == { r \in dns : r.domain_id = n }

\* C12: an addDomain call that has ended, and whose name is malformed or was
\* registered by the caller when findDomainByName ran, returned failure,
\* sent no command to the provider and committed no domain and no DNS row.
C12_RejectedBeforeProviderCall ==
  \A p \in Procs :
    (/\ result[p].op = "addDomain"
     /\ \/ ~isValidDomain(result[p].domainName)
        \/ result[p].known)
      => /\ ~result[p].value.success
         /\ result[p].sent = <<>>
         /\ DomainRowsWrittenBy(result[p].call) = {}
         /\ DnsRowsWrittenBy(result[p].call) = {}

\* An addDomain for a registered name whose lookup query failed went on to
\* the provider and was refused only by the unique key.
C12_Witness ==
  \E p \in Procs :
    /\ result[p].op = "addDomain"
    /\ result[p].known
    /\ result[p].dbFailed
    /\ Head(result[p].sent) = "VerifyDomainIdentity"
    /\ result[p].value = [success |-> FALSE,
                          error |-> <<"Failed to add domain">> \o UniqueError]

\* An ended addDomain call, recorded as r, went past the syntax check and the
\* duplicate lookup and createDomainIdentity did not return success.
CreateIdentityFailed(r) ==
  /\ r.op = "addDomain"
  /\ isValidDomain(r.domainName)
  /\ ~r.known \/ r.dbFailed
  /\ ~r.sesOk

\* C13: an addDomain call whose createDomainIdentity failed (the provider
\* raised, it returned no verification token, or the principal has no stored
\* credentials) returned success = false with the error of
\* createDomainIdentity, and committed no domain row and no DNS record.
C13_CreateIdentityFailurePersistsNothing ==
  \A p \in Procs :
    CreateIdentityFailed(result[p])
      => /\ ~result[p].value.success
         /\ Head(result[p].value.error) \in { "Failed to create SES domain identity",
                                                "Failed to get verification token from SES" }
         /\ DomainRowsWrittenBy(result[p].call) = {}
         /\ DnsRowsWrittenBy(result[p].call) = {}
         /\ tx[p].insDomains = {} /\ tx[p].insDns = {}

\* One addDomain failed for want of stored credentials and another because
\* the provider answered without a verification token; the tables hold
\* nothing of either call.
C13_Witness ==
  \E p, q \in Procs :
    /\ p # q
    /\ CreateIdentityFailed(result[p]) /\ CreateIdentityFailed(result[q])
    /\ result[p].value.error =
         <<"Failed to create SES domain identity">> \o NoCredentialsError
    /\ result[p].sent = <<>>
    /\ result[q].value.error = <<"Failed to get verification token from SES">>
    /\ result[q].sent = <<"VerifyDomainIdentity">>
    /\ DomainRowsWrittenBy(result[p].call) \cup DomainRowsWrittenBy(result[q].call) = {}

\* C14: an addDomain call whose createDomainIdentity succeeded and whose
\* transaction then failed, at whichever statement, returned success = false
\* with "Failed to add domain" and the error caught; no domain row and no DNS
\* record of the call is committed, and the only commands the call sent to
\* the provider are the two that created the identity: none deletes it.
C14_FailedTransactionOrphansIdentity ==
  \A p \in Procs :
    /\ (/\ result[p].op = "addDomain"
        /\ result[p].sesOk
        /\ result[p].caught # NoError)
         => /\ result[p].value =
                 [success |-> FALSE,
                  error |-> <<"Failed to add domain">> \o result[p].caught]
            /\ DomainRowsWrittenBy(result[p].call) = {}
            /\ DnsRowsWrittenBy(result[p].call) = {}
            /\ result[p].sent = <<"VerifyDomainIdentity", "GetIdentityDkimAttributes">>
    /\ pc[p] = "add_rollback"
         => /\ loc[p].sesOk
            /\ loc[p].sent = <<"VerifyDomainIdentity", "GetIdentityDkimAttributes">>
            /\ DomainRowsWrittenBy(loc[p].call) = {}
            /\ DnsRowsWrittenBy(loc[p].call) = {}

\* An addDomain created the identity, lost its transaction to a database
\* error and returned failure: the identity exists at the provider and no
\* domain row of that name does.
C14_Witness ==
  \E p \in Procs :
    /\ result[p].op = "addDomain"
    /\ result[p].sesOk
    /\ result[p].caught = DbError
    /\ ~result[p].value.success
    /\ << result[p].user, result[p].domainName >> \in ses
    /\ ~DomainKeyTaken(result[p].user, result[p].domainName)
    /\ dns = {}

C19_DeleteReportsExistence ==
  [][ \A p \in Procs :
        /\ (pc[p] \in {"delete_stmt", "delete_wait"} /\ pc'[p] = "delete_audit")
             => /\ loc'[p].deleted = (CredRowsOf(loc[p].user) # {})
                /\ { r \in creds' : r.user_id = loc[p].user } = {}
                /\ audit' = audit
        /\ (pc[p] = "delete_audit" /\ CallEnds(p))
             => /\ result'[p].kind = "returned"
                /\ result'[p].value = loc[p].deleted
                /\ creds' = creds
                /\ audit' =
                     IF result'[p].auditFailed THEN audit
                     ELSE Append(audit, AuditEntry(loc[p].user, "delete",
                                                   DetailEmpty, loc[p].deleted))
        /\ (pc[p] = "delete_fail_audit" /\ CallEnds(p))
             => /\ result'[p].kind = "raised"
                /\ creds' = creds
                /\ audit' =
                     IF result'[p].auditFailed THEN audit
                     ELSE Append(audit, AuditEntry(loc[p].user, "delete",
                                                   DetailError(loc[p].err), FALSE)) ]_vars

\* A deleteCredentials invoked while a storeCredentials of the same principal
\* was replacing the stored row returned false and wrote a failed-outcome
\* entry, although the principal had a row before, during and after it.
C19_Witness ==
  \E p, q \in Procs :
    /\ epoch = 1
    /\ result[p].op = "store" /\ result[p].kind = "returned"
    /\ result[q].op = "delete" /\ result[q].kind = "returned"
    /\ result[p].user = 1 /\ result[q].user = 1
    /\ result[p].call < result[q].call
    /\ result[q].value = FALSE
    /\ CredRowsOf(1) = { result[p].value }
    /\ audit[Len(audit)] = AuditEntry(1, "delete", DetailEmpty, FALSE)

\* C20: the UPDATE of updateCredentials, for a principal with a stored row,
\* leaves exactly one row of the principal, with the id of the old one, the
\* new encrypted fields and last_validated stamped now; for a principal with
\* no row it changes nothing and the call raises "No credentials found to
\* update", leaving the table as it was and appending, unless the audit write
\* itself fails, one "update" audit entry with success = false.
C20_UpdateInPlace ==
  [][ \A p \in Procs :
        /\ (/\ pc[p] \in {"update_stmt", "update_wait"}
            /\ pc'[p] \in {"update_audit", "update_fail_audit"}
            /\ ~loc'[p].dbFailed)
             => LET before == CredRowsOf(loc[p].user)
                    after  == { r \in creds' : r.user_id = loc[p].user }
                IN  IF before # {}
                      THEN /\ pc'[p] = "update_audit"
                           /\ Cardinality(after) = 1
                           /\ { r.id : r \in after } = { r.id : r \in before }
                           /\ \A r \in after :
                                /\ r.last_validated = Now
                                /\ r.region = loc[p].input.region
                                /\ r.encrypted_access_key = loc[p].enc.access.encryptedData
                           /\ creds' \ after = creds \ before
                      ELSE /\ pc'[p] = "update_fail_audit"
                           /\ loc'[p].err = <<"No credentials found to update">>
                           /\ creds' = creds
        /\ (pc[p] = "update_fail_audit" /\ CallEnds(p))
             => /\ result'[p].kind = "raised"
                /\ result'[p].error = <<"Failed to update credentials">> \o loc[p].err
                /\ creds' = creds
                /\ audit' =
                     IF result'[p].auditFailed THEN audit
                     ELSE Append(audit, AuditEntry(loc[p].user, "update",
                                                   DetailError(loc[p].err), FALSE)) ]_vars

\* An updateCredentials invoked while a storeCredentials of the same principal
\* was replacing the stored row raised "No credentials found to update",
\* although the principal had a row before, during and after it.
C20_Witness ==
  \E p, q \in Procs :
    /\ epoch = 1
    /\ result[p].op = "store" /\ result[p].kind = "returned"
    /\ result[q].op = "update" /\ result[q].kind = "raised"
    /\ result[p].user = 1 /\ result[q].user = 1
    /\ result[p].call < result[q].call
    /\ result[q].error = <<"Failed to update credentials">> \o <<"No credentials found to update">>
    /\ CredRowsOf(1) = { result[p].value }

\* C21: no step of a storeCredentials call other than its successful COMMIT
\* changes a committed credential row, and none before its catch block
\* appends an audit entry; a call whose transaction failed ends by raising
\* "Failed to store credentials" with the error caught, with its transaction
\* closed, no row of its own committed, the credential table as it was, and
\* (unless that audit write fails too) one "create" entry with success =
\* false appended.
C21_FailedStoreKeepsPriorSet ==
  [][ \A p \in Procs :
        /\ (/\ pc[p] \in StoreStages
            /\ pc'[p] # pc[p]
            /\ ~(pc[p] = "store_commit" /\ pc'[p] = "idle"))
             => /\ creds' = creds
                /\ pc[p] # "store_fail_audit" => audit' = audit
        /\ (pc[p] = "store_fail_audit" /\ CallEnds(p))
             => /\ loc[p].val.valid
                /\ result'[p].kind = "raised"
                /\ result'[p].error = <<"Failed to store credentials">> \o loc[p].err
                /\ tx[p] = Tx0
                /\ \A r \in creds' : r.id # loc[p].call
                /\ audit' =
                     IF faults' = faults
                       THEN Append(audit, AuditEntry(loc[p].user, "create",
                                                     DetailError(loc[p].err), FALSE))
                       ELSE audit ]_vars

\* A storeCredentials for a principal with a stored set failed in its
\* transaction and raised: the set stored before is there as it was, and the
\* last audit entry is the failed create.
C21_Witness ==
  \E p \in Procs :
    /\ epoch = 1
    /\ result[p].op = "store" /\ result[p].kind = "raised"
    /\ result[p].user = 1
    /\ result[p].caught = DbError
    /\ \E r \in CredRowsOf(1) : r.id = 1 /\ r.last_validated = 1
    /\ Cardinality(CredRowsOf(1)) = 1
    /\ audit[Len(audit)] = AuditEntry(1, "create", DetailError(DbError), FALSE)
    /\ \A i \in 2..Len(audit) : ~(audit[i].action = "create" /\ audit[i].success)

\* C22: getCredentials returns null without raising, and writes no audit
\* entry, when the principal has no row; when it read a row it appends one
\* access entry and no more: a successful one, and returns the plaintexts,
\* when every present field decrypts; a failed one, and raises, when the
\* decryption of a field fails (the entry is missing only when its own write
\* fails, which logCredentialAction swallows).
C22_OneAccessEntry ==
  [][ \A p \in Procs :
        LET u     == loc[p].user
            rows  == {r \in creds : r.user_id = u}
            opens(r) ==
              /\ decrypt(envKey, [encryptedData |-> r.encrypted_access_key,
                                  iv |-> r.access_key_iv, tag |-> r.access_key_tag]).ok
              /\ decrypt(envKey, [encryptedData |-> r.encrypted_secret_key,
                                  iv |-> r.secret_key_iv, tag |-> r.secret_key_tag]).ok
              /\ (   (/\ TruthyBlob(r.encrypted_session_token)
                       /\ TruthyIv(r.session_token_iv)
                       /\ TruthyTag(r.session_token_tag))
                    => decrypt(envKey, [encryptedData |-> r.encrypted_session_token,
                                        iv |-> r.session_token_iv,
                                        tag |-> r.session_token_tag]).ok)
            logged(e) == audit' = IF faults' = faults THEN Append(audit, e) ELSE audit
            direct == loc[p].caller = "get"
        IN  /\ (pc[p] = "get_select" /\ pc'[p] # pc[p])
              => /\ audit' = audit
                 /\ (rows = {} /\ faults' = faults)
                      => /\ pc'[p] \notin {"get_audit", "get_fail_audit"}
                         /\ direct => /\ CallEnds(p)
                                      /\ result'[p].kind = "returned"
                                      /\ result'[p].value = NoCreds
                 /\ (rows # {} /\ faults' = faults)
                      => \E r \in rows :
                           /\ loc'[p].stored = r
                           /\ IF opens(r)
                                THEN pc'[p] = "get_audit"
                                ELSE /\ pc'[p] = "get_fail_audit"
                                     /\ loc'[p].err = DecryptError
            /\ (pc[p] = "get_audit" /\ pc'[p] # pc[p])
              => /\ logged(AuditEntry(u, "access", DetailRegion(loc[p].stored.region), TRUE))
                 /\ pc'[p] \notin {"get_select", "get_audit", "get_fail_audit"}
                 /\ direct => /\ CallEnds(p)
                              /\ result'[p].kind = "returned"
                              /\ result'[p].value.accessKeyId =
                                   loc[p].stored.encrypted_access_key.pt
                              /\ result'[p].value.secretAccessKey =
                                   loc[p].stored.encrypted_secret_key.pt
            /\ (pc[p] = "get_fail_audit" /\ pc'[p] # pc[p])
              => /\ logged(AuditEntry(u, "access", DetailError(loc[p].err), FALSE))
                 /\ pc'[p] \notin {"get_select", "get_audit", "get_fail_audit"}
                 /\ direct => /\ CallEnds(p)
                              /\ result'[p].kind = "raised"
                              /\ result'[p].error =
                                   <<"Failed to retrieve credentials">> \o loc[p].err ]_vars

\* A getCredentials read a row whose secret key no longer verifies: it raised,
\* and the failed access entry is the last of the log.
C22_Witness ==
  \E p \in Procs :
    /\ result[p].op = "get" /\ result[p].kind = "raised"
    /\ result[p].caught = DecryptError
    /\ \E r \in CredRowsOf(result[p].user) : r.secret_key_tag = r.access_key_tag
    /\ Len(audit) = 2
    /\ audit[2] = AuditEntry(result[p].user, "access", DetailError(DecryptError), FALSE)

\* C23: a step of revalidateCredentials changes no committed credential row
\* except in credentials_valid and last_validated, and only in its UPDATE,
\* which sets credentials_valid of the principal's rows to the outcome it
\* computed for the credentials it decrypted; without a stored set the call
\* returns valid = false from its read and changes no row; and the call never
\* ends raised, whatever failed.
C23_RevalidateFrame ==
  [][ \A p \in Procs :
        LET u == loc[p].user
            frame(a, b) ==
              a = [b EXCEPT !.credentials_valid = a.credentials_valid,
                            !.last_validated = a.last_validated]
        IN  (loc[p].op = "revalidate" /\ pc'[p] # pc[p])
              => /\ \A a \in creds' : \E b \in creds : frame(a, b)
                 /\ \A b \in creds : \E a \in creds' : frame(a, b)
                 /\ pc'[p] # "reval_audit" => creds' = creds
                 /\ pc'[p] = "reval_audit"
                      => /\ loc'[p].val \in { validateCredentials(sts, sesProbe) :
                                                sts \in StsResponses, sesProbe \in SesResponses }
                         /\ \A a \in creds' :
                              \/ a \in creds /\ (a.user_id = u => pc[p] = "reval_wait")
                              \/ /\ a.user_id = u
                                 /\ a.credentials_valid = loc'[p].val.valid
                                 /\ a.last_validated = Now
                         /\ pc[p] = "reval_update"
                              => \A a \in creds' :
                                   a.user_id = u => a.credentials_valid = loc'[p].val.valid
                 /\ (pc[p] = "get_select" /\ CredRowsOf(u) = {} /\ faults' = faults)
                      => /\ CallEnds(p)
                         /\ result'[p].value.valid = FALSE
                         /\ result'[p].value.error = <<"No credentials found">>
                         /\ audit' = audit
                 /\ CallEnds(p)
                      => /\ result'[p].kind = "returned"
                         /\ pc[p] = "reval_audit" => result'[p].value = loc[p].val
                         /\ pc[p] # "reval_audit" => result'[p].value.valid = FALSE ]_vars

\* A revalidateCredentials found the stored credentials no longer valid: the
\* row it read is the stored one, marked invalid, with every encrypted column
\* and the region as before.
C23_Witness ==
  \E p \in Procs :
    /\ epoch = 1
    /\ result[p].op = "revalidate" /\ result[p].kind = "returned"
    /\ result[p].value.valid = FALSE
    /\ result[p].primaryOk
    /\ \E r \in CredRowsOf(result[p].user) :
         /\ r.credentials_valid = FALSE
         /\ r.last_validated = result[p].call
         /\ [r EXCEPT !.credentials_valid = TRUE, !.last_validated = 1] \in SeedStored.creds

\* C24: validateCredentials always returns; the result is valid exactly when
\* the identity call returned Account, UserId and Arn and both sending-service
\* commands returned; an identity call that throws and a sending-service
\* command that throws give valid = false with different leading messages; and
\* no sending-service command is sent unless the identity was complete, nor
\* the second one unless the first returned.
C24_ValidateNeverRaises ==
  \A p \in Procs :
    result[p].op = "validate" =>
      LET identity == result[p].inputs[1]
          enabled  == result[p].inputs[2]
          listed   == result[p].inputs[3]
          v        == result[p].value
          complete == /\ ~identity.threw
                      /\ identity.Account /\ identity.UserId /\ identity.Arn
      IN  /\ result[p].kind = "returned"
          /\ v.valid <=> (complete /\ enabled = "ok" /\ listed = "ok")
          /\ v.valid => v.error = NoError
          /\ identity.threw
               => /\ ~v.valid
                  /\ Head(v.error) = "AWS credential validation failed"
          /\ (complete /\ (enabled = "throws" \/ listed = "throws"))
               => /\ ~v.valid
                  /\ Head(v.error) =
                       "SES access denied - please ensure your AWS credentials have SES permissions"
          /\ (~identity.threw /\ ~complete)
               => /\ ~v.valid
                  /\ v.error = <<"Invalid AWS credentials - unable to retrieve caller identity">>
          /\ ~complete => result[p].sent = <<"GetCallerIdentity">>
          /\ complete
               => result[p].sent =
                    IF enabled = "ok"
                      THEN <<"GetCallerIdentity", "GetAccountSendingEnabled", "ListIdentities">>
                      ELSE <<"GetCallerIdentity", "GetAccountSendingEnabled">>

\* The second of two calls had a complete identity and its second
\* sending-service command threw: it returned invalid after three commands.
C24_Witness ==
  /\ calls - epoch = 2
  /\ \E p \in Procs :
       /\ result[p].op = "validate"
       /\ ~result[p].inputs[1].threw /\ result[p].inputs[1].Arn
       /\ result[p].inputs[1].Account /\ result[p].inputs[1].UserId
       /\ result[p].inputs[2] = "ok" /\ result[p].inputs[3] = "throws"
       /\ ~result[p].value.valid
       /\ Len(result[p].sent) = 3

\* C25: no method of the provisioning client ends its caller with an error of
\* its own. createDomainIdentity: an addDomain that ends before its
\* transaction returns success = false with the error of createDomainIdentity.
\* getDomainVerificationStatus: a failure of the credential lookup or of the
\* provider is read as not verified and not pending, and the check goes on to
\* its UPDATE. deleteDomainIdentity: whatever happens, deleteDomain goes on to
\* its DELETE. listIdentities: every call returns, with the empty list when
\* the credentials are missing or do not decrypt or the provider fails.
C25_SesNeverRaises ==
  [][ \A p \in Procs :
        LET GetStages == {"get_select", "get_audit", "get_fail_audit"}
            moved     == pc'[p] # pc[p]
        IN  /\ (/\ loc[p].op = "addDomain" /\ CallEnds(p)
                /\ pc[p] \in GetStages \cup {"add_verify", "add_dkim"})
              => /\ result'[p].kind = "returned"
                 /\ result'[p].value.success = FALSE
                 /\ Head(result'[p].value.error)
                      \in { "Failed to create SES domain identity",
                            "Failed to get verification token from SES" }
            /\ (loc[p].op = "checkDomainVerification" /\ pc[p] \in GetStages /\ moved)
              => pc'[p] \in GetStages \cup {"check_update"}
            /\ (/\ pc[p] = "check_update" /\ CallEnds(p) /\ faults' = faults
                /\ ~loc[p].sesOk \/ result'[p].answer = "throws")
              => /\ result'[p].kind = "returned"
                 /\ result'[p].value.success
                 /\ result'[p].value.verified = FALSE
                 /\ \A s \in domains' :
                      s.id = loc[p].domainId => s.verification_status = "failed"
            /\ (/\ loc[p].op = "deleteDomain" /\ moved
                /\ pc[p] \in GetStages \cup {"deldom_ses"})
              => pc'[p] \in GetStages \cup {"deldom_ses", "deldom_delete"}
            /\ (loc[p].op = "listIdentities" /\ moved)
              => /\ UNCHANGED << creds, domains, dns, ses, tx >>
                 /\ CallEnds(p)
                      => /\ result'[p].kind = "returned"
                         /\ (pc[p] # "list_send" \/ result'[p].answer # "Identities")
                              => result'[p].value = <<>>
                         /\ (pc[p] = "list_send") = result'[p].sesOk ]_vars

\* A listIdentities for a principal whose stored credentials no longer
\* decrypt returned the empty list, the provider not asked.
C25_Witness ==
  \E p \in Procs :
    /\ result[p].op = "listIdentities" /\ result[p].kind = "returned"
    /\ result[p].caught = <<"Failed to retrieve credentials">> \o DecryptError
    /\ result[p].value = <<>>
    /\ result[p].sent = <<>>
    /\ CredRowsOf(result[p].user) # {}

C27_RecordOrder ==
  \A p \in Procs :
    result[p].op = "generateAllDNSRecords" =>
      LET domain == result[p].inputs[1]
          token  == result[p].inputs[2]
          dkim   == result[p].inputs[3]
          region == result[p].inputs[4]
          recs   == result[p].value
          k      == Len(dkim)
      IN  /\ Len(recs) = k + 4
          /\ recs[1].type = "TXT" /\ recs[1].purpose = "verification"
          /\ recs[1].name = <<"_amazonses.">> \o domain
          /\ recs[1].value = <<token>>
          /\ \A i \in 1..k :
               /\ recs[1 + i].type = "CNAME" /\ recs[1 + i].purpose = "dkim"
               /\ recs[1 + i].name = <<dkim[i], "._domainkey.">> \o domain
               /\ recs[1 + i].value = <<dkim[i], ".dkim.amazonses.com">>
          /\ recs[k + 2].type = "TXT" /\ recs[k + 2].purpose = "spf"
          /\ recs[k + 2].name = domain
          /\ recs[k + 3].type = "TXT" /\ recs[k + 3].purpose = "dmarc"
          /\ recs[k + 3].name = <<"_dmarc.">> \o domain
          /\ recs[k + 4].type = "MX" /\ recs[k + 4].purpose = "mx"
          /\ recs[k + 4].name = domain
          /\ recs[k + 4].value = <<"inbound-smtp.", region, ".amazonaws.com">>
          /\ \A i \in 1..(k + 4) :
               /\ recs[i].ttl = 300
               /\ recs[i].priority = IF i = k + 4 THEN 10 ELSE NoPriority

\* A call with three signing tokens and the region eu-west-1 returned seven
\* records, the fourth of them the CNAME of the third token.
C27_Witness ==
  \E p \in Procs :
    /\ result[p].op = "generateAllDNSRecords"
    /\ result[p].inputs[3] = <<"dk1", "dk2", "dk3">>
    /\ result[p].inputs[4] = "eu-west-1"
    /\ Len(result[p].value) = 7
    /\ result[p].value[4].type = "CNAME"
    /\ Head(result[p].value[4].name) = "dk3"
    /\ result[p].value[7].priority = 10

\* C28 (as amended): decrypt, given what encrypt returned for a string in
\* which every surrogate code unit is one of a high-low pair, under the same
\* ENCRYPTION_KEY and salt, returns that string.
C28_RoundTripWellFormed ==
  \A p \in Procs :
    LET s == result[p].inputs[1]
        paired == \A i \in 1..Len(s) :
                    /\ s[i] = "d83d" => (i < Len(s) /\ s[i + 1] = "de00")
                    /\ s[i] = "de00" => (i > 1 /\ s[i - 1] = "d83d")
    IN  (result[p].op = "decrypt" /\ result[p].inputs[2] = "none" /\ paired)
          => /\ result[p].kind = "returned"
             /\ result[p].value = s

\* C28 as stated: decrypt returns, for every string, the string encrypt was
\* given.
C28_RoundTrip ==
  \A p \in Procs :
    (result[p].op = "decrypt" /\ result[p].inputs[2] = "none")
      => /\ result[p].kind = "returned"
         /\ result[p].value = result[p].inputs[1]

\* A surrogate pair came back from decrypt as it went into encrypt.
C28_Witness ==
  \E p \in Procs :
    /\ result[p].op = "decrypt" /\ result[p].inputs[2] = "none"
    /\ result[p].kind = "returned"
    /\ result[p].inputs[1] = <<"d83d", "de00">>
    /\ result[p].value = <<"d83d", "de00">>

\* C29: decrypt raises whenever the ciphertext, the IV or the tag it is given
\* differs from what encrypt returned, or the key differs; and whenever it
\* returns, it returns the string that was encrypted.
C29_TamperDetected ==
  \A p \in Procs :
    result[p].op = "decrypt"
      => /\ result[p].inputs[2] # "none" => result[p].kind = "raised"
         /\ result[p].kind = "returned" => result[p].value = result[p].inputs[1]

\* decrypt was given the result of encrypt with the tag cut to its first four
\* bytes, and returned the plaintext.
C29_Witness ==
  \E p \in Procs :
    /\ result[p].op = "decrypt"
    /\ result[p].inputs[2] = "tag cut"
    /\ result[p].kind = "returned"
    /\ result[p].value = result[p].inputs[1]
    /\ result[p].inputs[1] = <<"0061", "0061">>


\* C30: no secret value (the plaintext access key, secret key or session
\* token of any credential set a caller submitted or the vault holds) is part
\* of the details of an audit entry, of an error a credential, domain or
\* provider operation raised, or of the error text it returned in its value.
C30_NoSecretInErrors ==
  LET secrets == Plaintexts \ {NoToken, ""}
      quotes(msg) == \E i \in DOMAIN msg : msg[i] \in secrets
      reports == { "validate", "revalidate", "addDomain", "checkDomainVerification",
                   "deleteDomain" }
  IN  /\ \A i \in DOMAIN audit :
           /\ audit[i].details.region \notin secrets
           /\ ~quotes(audit[i].details.error)
      /\ \A p \in Procs :
           /\ ~quotes(loc[p].err)
           /\ ~quotes(result[p].error)
           /\ ~quotes(result[p].caught)
           /\ result[p].op \in reports /\ result[p].kind = "returned"
                => \/ "error" \notin DOMAIN result[p].value
                   \/ ~quotes(result[p].value.error)

\* A caller stored a credential set with a session token, a later call on the
\* vault was refused with an error, and both left their audit entries.
C30_Witness ==
  /\ \E u \in Users : lastWrite[u] \in CredInputs /\ lastWrite[u].sessionToken = "token2"
  /\ \E p \in Procs :
       /\ result[p].kind = "raised"
       /\ result[p].error # NoError
       /\ \E i \in DOMAIN audit :
            /\ audit[i].details.kind = "error"
            /\ audit[i].details.error # NoError
            /\ audit[i].user_id = result[p].user


\* C32: the mail-routing (MX) record that an addDomain call commits names the
\* region of the credential set the call decrypted for the principal:
\* inbound-smtp.<region>.amazonaws.com, whatever region was stored.
C32_MxNamesStoredRegion ==
  [][ \A p \in Procs :
        (pc[p] = "add_commit" /\ pc'[p] = "idle" /\ result'[p].kind = "returned"
           /\ result'[p].value.success)
          => \A r \in dns' \ dns :
               r.record_type = "MX"
                 => r.value = <<"inbound-smtp.", loc[p].got.region, ".amazonaws.com">> ]_vars

\* A principal whose stored credentials are for eu-west-1 added a domain, and
\* its committed MX record exists.
C32_Witness ==
  \E p \in Procs :
    /\ result[p].op = "addDomain" /\ result[p].kind = "returned"
    /\ result[p].value.success
    /\ lastWrite[result[p].user] \in CredInputs
    /\ lastWrite[result[p].user].region = "eu-west-1"
    /\ \E c \in creds : c.user_id = result[p].user /\ c.region = "eu-west-1"
    /\ \E r \in dns : r.domain_id = result[p].domainId /\ r.record_type = "MX"


\* C33: when the UPDATE of a revalidateCredentials call lands, every row it
\* marks holds the credentials the call decrypted and had validated, so the
\* credentials_valid flag of a row is never the outcome computed for a set
\* that a storeCredentials or updateCredentials call has since replaced.
C33_FlagOfHeldCredentials ==
  [][ \A p \in Procs :
        (pc[p] \in {"reval_update", "reval_wait"} /\ pc'[p] = "reval_audit")
          => \A r \in creds :
               r.user_id = loc[p].user
                 => /\ DecryptRow(envKey, r).ok
                    /\ DecryptRow(envKey, r).value = loc[p].got ]_vars

\* A revalidation found its credentials invalid and marked the row, an update
\* invoked after it stored other credentials that had passed validation, and
\* the row holding the updated credentials is flagged invalid.
C33_Witness ==
  \E p, q \in Procs :
    /\ result[p].op = "revalidate" /\ result[p].kind = "returned"
    /\ result[p].primaryOk /\ ~result[p].val.valid
    /\ result[q].op = "update" /\ result[q].kind = "returned"
    /\ result[q].user = result[p].user /\ result[q].call > result[p].call
    /\ result[q].val.valid
    /\ \E r \in creds :
         /\ r.user_id = result[p].user
         /\ ~r.credentials_valid
         /\ DecryptRow(envKey, r).ok
         /\ DecryptRow(envKey, r).value.secretAccessKey = lastWrite[r.user_id].secretAccessKey
         /\ lastWrite[r.user_id].secretAccessKey # SeedCreds.secretAccessKey


C35_RejectedWritesNothing ==
  [][ \A p \in Procs :
        LET moved == \/ pc'[p] # pc[p]
                     \/ calls' # calls /\ pc'[p] = "idle" /\ result'[p].call = calls'
            call  == IF pc'[p] = "idle" THEN [op |-> result'[p].op, val |-> result'[p].val]
                     ELSE [op |-> loc'[p].op, val |-> loc'[p].val]
        IN  (moved /\ call.op \in {"store", "update"} /\ ~call.val.valid)
              => /\ creds' = creds
                 /\ audit' = audit
                 /\ tx' = tx
                 /\ lastWrite' = lastWrite
                 /\ pc[p] = "idle" /\ pc'[p] = "idle"
                 /\ result'[p].kind = "raised"
                 /\ result'[p].error = <<"Invalid credentials">> \o call.val.error ]_vars

\* A principal with a stored row submitted credentials the provider rejects:
\* updateCredentials raised, and the row and the audit log are those from
\* before the call.
C35_Witness ==
  \E p \in Procs :
    /\ result[p].op = "update" /\ result[p].kind = "raised"
    /\ ~result[p].val.valid
    /\ result[p].call = epoch + 1 /\ calls = epoch + 1
    /\ creds = SeedStored.creds
    /\ audit = SeedStored.audit
    /\ creds # {}


\* C36: for every caller of getCredentials (a client, revalidateCredentials,
\* and createSESClient on behalf of createDomainIdentity,
\* getDomainVerificationStatus, deleteDomainIdentity and listIdentities), the
\* step that decrypts the stored row is followed by exactly one step that
\* appends one successful access entry for the principal (when the audit
\* write itself succeeds), and no other step appends a successful access entry.
C36_AccessEntryPerDecryption ==
  [][ \A p \in Procs :
        LET entry == AuditEntry(loc[p].user, "access",
                                DetailRegion(loc[p].stored.region), TRUE)
            decrypted == /\ pc[p] = "get_select" /\ pc'[p] \notin {"get_select", "idle"}
                         /\ loc'[p].stored # NoRow
                         /\ DecryptRow(envKey, loc'[p].stored).ok
        IN  /\ decrypted => /\ pc'[p] = "get_audit"
                            /\ audit' = audit
            /\ (pc[p] = "get_audit" /\ pc'[p] # pc[p])
                 => /\ loc[p].caller \in {"get", "revalidate", "addDomain",
                                          "checkDomainVerification", "deleteDomain",
                                          "listIdentities"}
                    /\ audit' = IF faults' = faults THEN Append(audit, entry) ELSE audit
                    /\ pc'[p] \notin {"get_select", "get_audit", "get_fail_audit"}
            /\ (pc'[p] # pc[p] /\ pc[p] # "get_audit")
                 => \/ audit' = audit
                    \/ /\ Len(audit') = Len(audit) + 1
                       /\ ~(/\ audit'[Len(audit')].action = "access"
                            /\ audit'[Len(audit')].success) ]_vars

\* A revalidation and a listing of identities ran for a principal with a
\* stored row: each decrypted the row once, and the log holds one successful
\* access entry for each, next to the entry of the revalidation itself.
C36_Witness ==
  \E p, q \in Procs :
    /\ result[p].op = "revalidate" /\ result[p].kind = "returned" /\ result[p].primaryOk
    /\ result[q].op = "listIdentities" /\ result[q].kind = "returned"
    /\ result[q].answer = "Identities"
    /\ result[p].user = result[q].user
    /\ ~result[p].auditFailed /\ ~result[q].auditFailed
    /\ Len(audit) = Len(SeedAdded.audit) + 3
    /\ Cardinality({ i \in DOMAIN audit :
                       /\ i > Len(SeedAdded.audit)
                       /\ audit[i] = AuditEntry(result[p].user, "access",
                                                DetailRegion(SeedCreds.region), TRUE) }) = 2


\* C31: a transaction() call issues COMMIT exactly when BEGIN succeeded and
\* the callback completed without error, and returns exactly when that COMMIT
\* succeeded; it issues ROLLBACK exactly when BEGIN, the callback or COMMIT
\* failed, and then raises; and once it has checked a client out it holds it
\* until it ends and has released it exactly once when it ends, also when
\* BEGIN or ROLLBACK itself failed.
C31_TransactionDiscipline ==
  /\ \A p \in Procs :
       /\ pc[p] \in {"tx_begin", "tx_callback", "tx_commit", "tx_rollback"}
            => loc[p].acquired /\ loc[p].releases = 0
       /\ result[p].op = "transaction"
            => LET r          == result[p]
                   issued(s)  == \E i \in DOMAIN r.sent : r.sent[i] = s
                   count(s)   == Cardinality({ i \in DOMAIN r.sent : r.sent[i] = s })
               IN  /\ issued("COMMIT") <=> (r.callback = "completed")
                   /\ r.callback = "completed" => r.sent[1] = "BEGIN" /\ r.failed \notin {"BEGIN", "callback"}
                   /\ (r.kind = "returned") <=> (issued("COMMIT") /\ r.failed = "none")
                   /\ issued("ROLLBACK") <=> (r.failed \in {"BEGIN", "callback", "COMMIT", "ROLLBACK"})
                   /\ r.failed \in {"BEGIN", "callback", "COMMIT", "ROLLBACK"} => r.kind = "raised"
                   /\ count("BEGIN") <= 1 /\ count("COMMIT") <= 1 /\ count("ROLLBACK") <= 1
                   /\ issued("ROLLBACK") => r.sent[Len(r.sent)] = "ROLLBACK"
                   /\ r.releases = (IF r.acquired THEN 1 ELSE 0)
                   /\ r.acquired <=> (r.sent # <<>>)
  /\ clients - Cardinality({ p \in Procs : pc[p] \in {"connect_test", "tx_begin",
                                  "tx_callback", "tx_commit", "tx_rollback"} })
       \in 0..faults

\* A transaction whose callback threw and whose ROLLBACK then failed has
\* ended: it raised, and its client was released once.
C31_Witness ==
  \E p \in Procs :
    /\ result[p].op = "transaction" /\ result[p].kind = "raised"
    /\ result[p].callback = "threw"
    /\ result[p].failed = "ROLLBACK"
    /\ result[p].sent = <<"BEGIN", "ROLLBACK">>
    /\ result[p].releases = 1


\* C40: the Database object never holds a pool whose connectivity test has
\* failed: no connect() returns at once on such a pool, and no query() or
\* transaction() runs its statements on it.
C40_FailedPoolNotKept ==
  /\ pool.set => pool.test # "failed"
  /\ \A p \in Procs :
       /\ (result[p].op = "connect" /\ result[p].kind = "returned")
            => result[p].poolTest # "failed"
       /\ (result[p].op \in {"query", "transaction"} /\ result[p].sent # <<>>)
            => result[p].poolTest # "failed"

\* The connectivity test of a connect() failed and the call raised; the
\* connect() after it returned without building or testing a pool.
C40_Witness ==
  /\ pool.set /\ pool.test = "failed"
  /\ calls = 2
  /\ \E p \in Procs :
       /\ result[p].op = "connect" /\ result[p].kind = "returned"
       /\ result[p].call = 2
       /\ result[p].poolTest = "failed"
       /\ result[p].sent = <<>> /\ ~result[p].acquired

\* C37: a verification token is single-use: over all interleavings of
\* verifyToken calls for one token and type, two concurrent calls included,
\* at most one call answers valid = true for the row.
C37_TokenSingleUse ==
  \A t \in verification_tokens : t.accepted <= 1

\* Two client calls of verifyToken for the same token and type have both
\* returned valid = true.
C37_Witness ==
  \E p, q \in Procs :
    /\ p # q
    /\ result[p].op = "verifyToken" /\ result[q].op = "verifyToken"
    /\ result[p].kind = "returned" /\ result[q].kind = "returned"
    /\ result[p].token = result[q].token
    /\ result[p].tokenType = result[q].tokenType
    /\ result[p].value.valid /\ result[q].value.valid
    /\ \E t \in verification_tokens :
         t.token = result[p].token /\ t.token_type = result[p].tokenType /\ t.accepted = 2

\* C38: after a resetPassword that returned success for a user, validateSession
\* accepts no session of that user that was created by a login which had
\* verified the password the reset replaced, a login running concurrently
\* with the reset included.
C38_NoSessionOnReplacedPassword ==
  \A p \in Procs :
    result[p].op = "validateSession" /\ "id" \in DOMAIN result[p].value
      => ~ result[p].stale

\* validateSession has returned the user for a session which a login created
\* during the behaviour on the password hash that a successful resetPassword
\* had replaced before the session was looked up.
C38_Witness ==
  \E p \in Procs :
    /\ result[p].op = "validateSession"
    /\ result[p].kind = "returned"
    /\ "id" \in DOMAIN result[p].value
    /\ result[p].row.session_token # 100
    /\ \E u \in users :
         /\ u.id = result[p].row.user_id
         /\ result[p].row.checked \in u.replaced
         /\ result[p].row.checked # u.password_hash

\* C39: a register call that returned failure has left no users row behind:
\* when the verification token or the session could not be created after the
\* row was inserted, the row is not there, so that the same address can be
\* registered again.
C39_FailedRegisterLeavesNoUser ==
  \A p \in Procs :
    result[p].op = "register" /\ ~ result[p].value.success
      => ~ \E u \in users : u.by = result[p].call

\* A register call was rejected with "User with this email already exists" by
\* the row of an earlier register call of the behaviour that has ended and
\* had not got as far as creating the session, so had returned failure.
C39_Witness ==
  \E p \in Procs :
    /\ result[p].op = "register"
    /\ result[p].kind = "returned"
    /\ result[p].value.error = <<"User with this email already exists">>
    /\ result[p].row \in users
    /\ result[p].row.by \in 1..(result[p].call - 1)
    /\ \A s \in user_sessions : s.user_id # result[p].row.id
    /\ \A q \in Procs : pc[q] = "idle"

====
